---- MODULE Spec2Model ----
(***************************************************************************)
(* A model of the salus hypervisor core: the physical page tracker         *)
(* (riscv-page-tables/src/page_tracking.rs) and the pieces built on it.    *)
(***************************************************************************)
EXTENDS Integers, Sequences, FiniteSets, TLC

VARIABLES
    next_owner_id,   \* PageTrackerInner.next_owner_id
    active_guests,   \* PageTrackerInner.active_guests, a PageVec (sequence)
    pages,           \* PageTrackerInner.pages: address -> PageInfo
    panicked,        \* an unwrap() has panicked: the hypervisor has stopped
    assigned,        \* history: the ids add_active_guest has handed out
    lock,            \* the Mutex around PageTrackerInner: the CPU holding it
    handle,          \* per CPU: the PageTracker handle it holds, if any
    cpu,             \* per CPU: the call it is executing and where it is in it
    calls,           \* history: how many calls the CPUs have issued
    serial,          \* history: the tracker state of the calls run one by one
    region,          \* the U-mode PrivateRegion / ELF segment: perms, size, data
    umem,            \* the bytes of the pages mapped for the region
    phase,           \* the U-mode task: "idle", "running" or "reset"
    wiped,           \* history: the offsets U-mode had written when reset ran
    private_regions, \* HypMap.private_regions: the regions of the U-mode ELF
    reset_areas,     \* Umode.reset_areas: the areas of its writable segments
    phys,            \* the bytes of the physical pages HypPageAlloc handed out
    built,           \* history: phys as PerCpu::init left it
    tables,          \* per CPU: its HypPageTable, virtual page -> physical page
    running,         \* per CPU: U-mode is running on it
    umode_task,      \* PerCpu.umode_task of the task's CPU: "unset" or "set"
    arch,            \* UmodeTask.arch: the UmodeCpuArchState
    task_ref,        \* a RefMut<UmodeTask> from umode_task_mut is alive
    arch_ref,        \* a UmodeActiveTask, with its RefMut on arch, is alive
    act_ret,         \* what the last activate() returned
    run_ret,         \* what the last run() of the active task returned
    ended,           \* history: how, and in what state, the last activation ended
    abort_cause,     \* the panic that stopped the hypervisor, if any
    trap_pc,         \* history: the pc of the instruction that trapped last
    draft,           \* which U-mode binary runs, against which hypervisor
    loop_pos,        \* where the U-mode loop is
    loop_res,        \* the loop's `res': the result of the request it handled
    a_regs,          \* the A-registers a0..a7 of U-mode
    issued,          \* history: the requests the hypervisor has returned
    received,        \* history: the results the NextOp hypcalls have carried
    cval,            \* the UmodeRequest or HypCall being passed through registers
    cregs,           \* the registers a0..a7 it is passed in
    cdec,            \* what the receiver decoded from the registers
    page_alloc,      \* the HypPageAlloc: its next_page and its PageMap
    alloc_state,     \* "ready", or how the allocator ended
    taken,           \* history: the pages the allocator has returned
    host_ranges,     \* the ranges drain() returned
    hyp_table,       \* a HypPageTable: its sv48 table and its pool of PTE pages
    slot_mapper,     \* the UmodeSlotMapper the hypervisor holds, if any
    slot_out,        \* the pages the last unmap_umode_slot returned
    vm_roots,        \* per owner id: its VmPages or GuestRootBuilder, if any
    umode_elf,       \* the segments of the U-mode ELF handed to HypMap::init
    hypmap,          \* HYPMAP, the Once<HypMap>: unset, or its private regions
    hypmap_ret,      \* what HypMap::init returned
    um_range,        \* a UmodeMemoryRange the hypervisor holds, if any
    um_parent,       \* history: the range um_range was made from by offset()
    um_call,         \* history: the last call on UmodeMemoryRange and its inputs
    um_ret,          \* what that call returned
    smp_boot,        \* the boot CPU's id: PerCpu::this_cpu().cpu_id()
    smp_pc,          \* where the boot CPU is in start_secondary_cpus
    smp_i,           \* the loop variable i of start_secondary_cpus
    smp_online,      \* cpu id -> PerCpu.online, a Once<bool>
    smp_hart,        \* cpu id -> how far the hart of that CPU has come
    smp_started      \* history: the cpu ids hart_start was issued for, in order

trackerVars == <<next_owner_id, active_guests, pages, panicked, assigned>>

concVars == <<lock, handle, cpu, calls, serial>>

resetVars == <<region, umem, phase, wiped>>

mapVars == <<private_regions, reset_areas, phys, built, tables, running>>

taskVars == <<umode_task, arch, task_ref, arch_ref, act_ret, run_ret, ended, abort_cause,
              trap_pc>>

loopVars == <<draft, loop_pos, loop_res, a_regs, issued, received>>

codecVars == <<cval, cregs, cdec>>

moreVars == <<loopVars, codecVars>>

umodeVars == <<mapVars, taskVars, moreVars>>

allocVars == <<page_alloc, alloc_state, taken, host_ranges>>

slotVars == <<hyp_table, slot_mapper, slot_out>>

elfVars == <<umode_elf, hypmap, hypmap_ret>>

rangeVars == <<um_range, um_parent, um_call, um_ret>>

smpVars == <<smp_boot, smp_pc, smp_i, smp_online, smp_hart, smp_started>>

lateVars == <<elfVars, rangeVars, smpVars>>

restVars == <<vm_roots, lateVars>>

bootVars == <<allocVars, slotVars, restVars>>

baseVars == <<trackerVars, concVars, resetVars, bootVars>>

vars == <<baseVars, umodeVars>>

(***************************************************************************)
(* Bounds of the model.                                                    *)
(***************************************************************************)
\* Stands for u64::MAX: the value of next_owner_id at which checked_add(1)
\* overflows.  Ids 2 .. MaxOwnerId - 1 are the ones a run can hand out.
MaxOwnerId == 5
\* Capacity of the active_guests PageVec (two pages of ids in the code),
\* the host included.
GuestCapacity == 2
\* How many bytes U-mode has stored to and the hypervisor not yet reset.
MaxDirty == 2
\* How many instructions past its entry U-mode gets before it traps.
MaxInsns == 1
\* How many NextOp hypcalls U-mode makes between two restarts.
MaxNextOps == 3
\* How many pages the memory map of the boot allocator holds.
MapPages == 5
\* The most pages one take_pages call asks for.
MaxTake == 2
\* The entries of one page of a page table (512 in Sv48).
PteEntries == 2
\* The pages of one U-mode mapping slot (1024: 4 MiB of 4 KiB pages).
SlotPages == 2
\* How many pages of RAM the host VM starts with.
VmMapPages == 30
\* MaxOwnerId and GuestCapacity where the guests build guests: a chain of
\* four guests below the host fills an owner stack.
VmMaxOwnerId == 6
VmGuestCapacity == 3
\* How many addresses the model has below UMODE_VA_START, down to address 0
\* of the code, and from UMODE_VA_END up to u64::MAX.
VaBelow == 2
VaAbove == 4
\* The number of CPUs: CpuInfo::num_cpus().
NumCpus == 4

\* The bounds on the ids and on the active_guests vector of the tracker in
\* the state at hand.
IdLimit == IF vm_roots = <<>> THEN MaxOwnerId ELSE VmMaxOwnerId

CapacityLimit == IF vm_roots = <<>> THEN GuestCapacity ELSE VmGuestCapacity
\* Stands for u64::MAX: the largest value of a register.
U64Max == 7
\* Stands for u8::MAX: the largest byte PutChar carries.
U8Max == 3
\* How many calls the CPUs issue concurrently in all.
MaxConcCalls == 4
\* Stands for the 4k page size: the granule the region's size is rounded to.
PageBytes == 2
\* The largest size of the U-mode region, in bytes.
MaxSize == 3

(***************************************************************************)
(* Owner ids and addresses.                                                *)
(***************************************************************************)
HostId == 0
HypervisorId == 1
FirstGuestId == 2
NoId == -1

OwnerIds == 0..(IdLimit - 1)

\* One RAM page, one reserved page, and one address the page map does
\* not cover.
RamAddr == "ram"
ReservedAddr == "reserved"
UnmappedAddr == "unmapped"
MappedAddrs == {RamAddr, ReservedAddr}
Addrs == MappedAddrs \cup {UnmappedAddr}

(***************************************************************************)
(* Results.                                                                *)
(***************************************************************************)
Ok(id) == [kind |-> "ok", id |-> id, err |-> ""]
Err(e) == [kind |-> "err", id |-> NoId, err |-> e]
None == [kind |-> "none", id |-> NoId, err |-> ""]
Panic == [kind |-> "panic", id |-> NoId, err |-> ""]
Some(id) == [kind |-> "some", id |-> id, err |-> ""]
SomeType(t) == [kind |-> "some", id |-> NoId, err |-> t]

(***************************************************************************)
(* PageInfo: the per-page owner stack.                                     *)
(***************************************************************************)
MAX_PAGE_OWNERS == 4

PageInfo(t, o) == [mem_type |-> t, owners |-> o]

\* PageInfo::push_owner: <<new info, result>>
push_owner(info, id) ==
    IF info.mem_type = "Reserved" THEN <<info, Err("ReservedPage")>>
    ELSE IF Len(info.owners) >= MAX_PAGE_OWNERS THEN <<info, Err("OwnerOverflow")>>
    ELSE <<PageInfo(info.mem_type, Append(info.owners, id)), Ok(NoId)>>

\* PageInfo::pop_owner: <<new info, result>>
pop_owner(info) ==
    IF info.mem_type = "Reserved" THEN <<info, Err("ReservedPage")>>
    ELSE IF Len(info.owners) = 0 THEN <<info, Err("UnownedPage")>>
    ELSE IF Len(info.owners) = 1 THEN <<info, Err("OwnerUnderflow")>>
    ELSE <<PageInfo(info.mem_type, SubSeq(info.owners, 1, Len(info.owners) - 1)),
           Ok(info.owners[Len(info.owners)])>>

\* PageInfo::pop_owners_while: pops from the top while check holds; check
\* is given as the set of the ids it holds for.
pop_owners_while(info, check) ==
    IF info.mem_type = "Reserved" THEN info
    ELSE LET o == info.owners
             keep == CHOOSE n \in 0..Len(o) :
                        /\ \A i \in (n + 1)..Len(o) : o[i] \in check
                        /\ (n > 0 => o[n] \notin check)
         IN PageInfo(info.mem_type, SubSeq(o, 1, keep))

\* PageInfo::find_owner: the topmost owner for which check holds; check is
\* given as the set of the ids it holds for.
find_owner(info, check) ==
    LET o == info.owners
        hits == {i \in 1..Len(o) : o[i] \in check}
    IN IF hits = {} THEN None
       ELSE Some(o[CHOOSE i \in hits : \A j \in hits : j <= i])

(***************************************************************************)
(* PageTrackerInner                                                        *)
(***************************************************************************)
contains(seq, id) == \E i \in 1..Len(seq) : seq[i] = id

\* PageMap::get
get(pm, addr) == addr \in DOMAIN pm

\* PageTrackerInner::pop_exited_owners: the page map afterwards
pop_exited_owners(pm, active, addr) ==
    IF get(pm, addr)
    THEN [pm EXCEPT ![addr] =
            pop_owners_while(pm[addr], {id \in OwnerIds : ~contains(active, id)})]
    ELSE pm

\* A faulty set_page_owner that pushes without pruning the exited owners.
set_page_owner_without_pruning(pm, active, addr, owner) ==
    IF ~get(pm, addr) THEN <<pm, Err("InvalidPage")>>
    ELSE LET r == push_owner(pm[addr], owner)
         IN <<[pm EXCEPT ![addr] = r[1]], r[2]>>

\* A faulty set_page_owner that evicts the top owner when the stack is full.
set_page_owner_evicting_on_overflow(pm, active, addr, owner) ==
    LET pruned == pop_exited_owners(pm, active, addr)
    IN IF ~get(pruned, addr) THEN <<pruned, Err("InvalidPage")>>
       ELSE LET r == push_owner(pruned[addr], owner)
            IN IF r[2] = Err("OwnerOverflow")
               THEN <<[pruned EXCEPT ![addr] =
                          PageInfo(r[1].mem_type,
                                   SubSeq(r[1].owners, 1, Len(r[1].owners) - 1))],
                      r[2]>>
               ELSE <<[pruned EXCEPT ![addr] = r[1]], r[2]>>

\* PageTrackerInner::set_page_owner: <<page map afterwards, result>>
inner_set_page_owner(pm, active, addr, owner) ==
    LET pruned == pop_exited_owners(pm, active, addr)
    IN IF ~get(pruned, addr) THEN <<pruned, Err("InvalidPage")>>
       ELSE LET r == push_owner(pruned[addr], owner)
            IN <<[pruned EXCEPT ![addr] = r[1]], r[2]>>

\* A faulty pop_owner_internal that looks at the stack before the page's
\* memory type.
pop_owner_before_mem_type(pm, addr) ==
    IF ~get(pm, addr) THEN <<pm, Panic>>
    ELSE IF Len(pm[addr].owners) = 0 THEN <<pm, Err("UnownedPage")>>
    ELSE LET r == pop_owner(pm[addr])
         IN <<[pm EXCEPT ![addr] = r[1]], r[2]>>

\* PageTrackerInner::pop_owner_internal: <<page map afterwards, result>>;
\* the unwrap of a missing PageInfo panics.
pop_owner_internal(pm, addr) ==
    IF ~get(pm, addr) THEN <<pm, Panic>>
    ELSE LET r == pop_owner(pm[addr])
         IN <<[pm EXCEPT ![addr] = r[1]], r[2]>>

\* A faulty owner that reports the top of the stack, exited or not.
owner_ignoring_active_set(pm, active, addr) ==
    IF ~get(pm, addr) THEN None
    ELSE find_owner(pm[addr], OwnerIds)

\* PageTrackerInner::owner
inner_owner(pm, active, addr) ==
    IF ~get(pm, addr) THEN None
    ELSE find_owner(pm[addr], {id \in OwnerIds : contains(active, id)})

\* PageTrackerInner::mem_type
inner_mem_type(pm, addr) ==
    IF ~get(pm, addr) THEN None ELSE SomeType(pm[addr].mem_type)

(***************************************************************************)
(* PageTracker: each call as a function of the state under the mutex,      *)
(* st = [next, active, pages], giving [st, res].                           *)
(***************************************************************************)
State(n, a, p) == [next |-> n, active |-> a, pages |-> p]

Outcome(st, res) == [st |-> st, res |-> res]

\* PageTracker::add_active_guest
add_active_guest(st) ==
    LET id == st.next
    IN IF st.next >= IdLimit
       THEN Outcome(st, Err("IdOverflow"))
       ELSE IF Len(st.active) >= CapacityLimit
            THEN Outcome(State(st.next + 1, st.active, st.pages), Err("GuestOverflow"))
            ELSE Outcome(State(st.next + 1, Append(st.active, id), st.pages), Ok(id))

\* A faulty rm_active_guest that walks the pages and drops the exited owners.
rm_active_guest_walking_pages(st, remove_id) ==
    LET left == SelectSeq(st.active, LAMBDA id : id # remove_id)
    IN Outcome(State(st.next, left,
                     [a \in DOMAIN st.pages |->
                         pop_owners_while(st.pages[a],
                                          {id \in OwnerIds : ~contains(left, id)})]),
               Ok(NoId))

\* PageTracker::rm_active_guest
rm_active_guest(st, remove_id) ==
    Outcome(State(st.next, SelectSeq(st.active, LAMBDA id : id # remove_id), st.pages),
            Ok(NoId))

\* PageTracker::set_page_owner
set_page_owner(st, addr, id) ==
    LET r == inner_set_page_owner(st.pages, st.active, addr, id)
    IN Outcome(State(st.next, st.active, r[1]), r[2])

\* PageTracker::pop_owner
tracker_pop_owner(st, addr) ==
    LET r == pop_owner_internal(st.pages, addr)
    IN Outcome(State(st.next, st.active, r[1]), r[2])

\* PageTracker::owner
tracker_owner(st, addr) == Outcome(st, inner_owner(st.pages, st.active, addr))

\* PageTracker::mem_type
tracker_mem_type(st, addr) == Outcome(st, inner_mem_type(st.pages, addr))

\* The state under the mutex, and what the tracker reports in it.
Cur == State(next_owner_id, active_guests, pages)

owner(addr) == tracker_owner(Cur, addr).res

mem_type(addr) == tracker_mem_type(Cur, addr).res

(***************************************************************************)
(* The calls made by one CPU at a time.                                    *)
(***************************************************************************)
\* A panic stops the hypervisor.
Running == ~panicked

\* The call whose outcome is out has returned, or has panicked.
Becomes(out) ==
    /\ next_owner_id' = out.st.next
    /\ active_guests' = out.st.active
    /\ pages' = out.st.pages
    /\ panicked' = (out.res = Panic)

\* PageTracker::from: next_owner_id 2, the host the only active guest, and
\* every RAM page owned by the hypervisor (taken at boot or by drain()).
TrackerInit ==
    /\ next_owner_id = FirstGuestId
    /\ active_guests = <<HostId>>
    /\ pages = [a \in MappedAddrs |->
                  IF a = ReservedAddr THEN PageInfo("Reserved", <<>>)
                  ELSE PageInfo("Ram", <<HypervisorId>>)]
    /\ panicked = FALSE
    /\ assigned = {}

\* The owner ids a caller can hold: the two fixed ones and those that
\* add_active_guest has returned.
KnownIds == {HostId, HypervisorId} \cup assigned

CallAddActiveGuest ==
    /\ Running
    /\ LET out == add_active_guest(Cur)
       IN /\ Becomes(out)
          /\ assigned' = IF out.res.kind = "ok" THEN assigned \cup {out.res.id}
                          ELSE assigned
          /\ UNCHANGED <<umodeVars, bootVars, concVars, resetVars>>

CallRmActiveGuest(remove_id) ==
    /\ Running
    /\ LET out == rm_active_guest(Cur, remove_id)
       IN /\ Becomes(out)
          /\ UNCHANGED <<umodeVars, bootVars, assigned, concVars, resetVars>>

CallSetPageOwner(addr, id) ==
    /\ Running
    /\ LET out == set_page_owner(Cur, addr, id)
       IN /\ Becomes(out)
          /\ UNCHANGED <<umodeVars, bootVars, assigned, concVars, resetVars>>

CallPopOwner(addr) ==
    /\ Running
    /\ LET out == tracker_pop_owner(Cur, addr)
       IN /\ Becomes(out)
          /\ UNCHANGED <<umodeVars, bootVars, assigned, concVars, resetVars>>

(***************************************************************************)
(* Several CPUs calling the tracker through clones of the handle.  Every   *)
(* PageTracker method takes the mutex, runs its body on the shared state   *)
(* one access at a time, and releases the mutex when it returns.           *)
(***************************************************************************)
CPUs == {"cpu0", "cpu1"}

NoCpu == "none"

\* The handle PageTracker::from returns; a clone copies the reference.
InnerRef == "inner"

NoHandle == "none"

\* The page the concurrent calls work on.
ConcAddr == RamAddr

IdleCpu ==
    [pc |-> "idle", op |-> "none", id |-> NoId, local |-> NoId,
     res |-> None, want |-> None]

ConcIdle ==
    /\ lock = NoCpu
    /\ handle = [c \in CPUs |-> NoHandle]
    /\ cpu = [c \in CPUs |-> IdleCpu]
    /\ calls = 0
    /\ serial = State(FirstGuestId, <<HostId>>, <<>>)

\* The call op(id) run in one piece on state st.
Atomic(op, st, id) ==
    CASE op = "add_active_guest" -> add_active_guest(st)
      [] op = "rm_active_guest" -> rm_active_guest(st, id)
      [] op = "set_page_owner" -> set_page_owner(st, ConcAddr, id)
      [] op = "pop_owner" -> tracker_pop_owner(st, ConcAddr)
      [] op = "owner" -> tracker_owner(st, ConcAddr)

\* The first access of each method's body.
Entry(op) ==
    CASE op = "add_active_guest" -> "add_read"
      [] op = "rm_active_guest" -> "rm_retain"
      [] op = "set_page_owner" -> "set_prune"
      [] op = "pop_owner" -> "pop"
      [] op = "owner" -> "owner"

\* A faulty mutex that lets every caller in.
MutexNeverHeld == TRUE

\* Mutex::lock gets through when no CPU holds the mutex.
MutexIsFree == lock = NoCpu

At(c, pc) == cpu[c].pc = pc

Goto(c, pc) == cpu' = [cpu EXCEPT ![c].pc = pc]

Return(c, res) == cpu' = [cpu EXCEPT ![c].pc = "unlock", ![c].res = res]

\* #[derive(Clone)] on PageTracker: the clone refers to the same mutex.
CloneHandle(c, d) ==
    /\ handle[c] # NoHandle
    /\ handle[d] = NoHandle
    /\ handle' = [handle EXCEPT ![d] = handle[c]]
    /\ UNCHANGED <<umodeVars, bootVars, trackerVars, lock, cpu, calls, serial, resetVars>>

\* A CPU calls a method through its handle.
Invoke(c, op, id) ==
    /\ handle[c] = InnerRef
    /\ At(c, "idle")
    /\ calls < MaxConcCalls
    /\ cpu' = [cpu EXCEPT ![c] = [IdleCpu EXCEPT !.pc = "lock", !.op = op, !.id = id]]
    /\ calls' = calls + 1
    /\ UNCHANGED <<umodeVars, bootVars, trackerVars, lock, handle, serial, resetVars>>

\* self.inner.lock(): spin until the mutex is free, then hold it.
MutexLock(c) ==
    /\ At(c, "lock")
    /\ MutexIsFree
    /\ lock' = c
    /\ LET out == Atomic(cpu[c].op, serial, cpu[c].id)
       IN /\ serial' = out.st
          /\ cpu' = [cpu EXCEPT ![c].pc = Entry(cpu[c].op), ![c].want = out.res]
    /\ UNCHANGED <<umodeVars, bootVars, trackerVars, handle, calls, resetVars>>

\* add_active_guest: let id = PageOwnerId::new(next_owner_id)
AddRead(c) ==
    /\ At(c, "add_read")
    /\ cpu' = [cpu EXCEPT ![c].pc = "add_incr", ![c].local = next_owner_id]
    /\ UNCHANGED <<umodeVars, bootVars, trackerVars, lock, handle, calls, serial, resetVars>>

\* add_active_guest: next_owner_id = next_owner_id.checked_add(1)?
AddIncrement(c) ==
    /\ At(c, "add_incr")
    /\ IF next_owner_id >= IdLimit
       THEN Return(c, Err("IdOverflow")) /\ UNCHANGED next_owner_id
       ELSE Goto(c, "add_push") /\ next_owner_id' = next_owner_id + 1
    /\ UNCHANGED <<umodeVars, bootVars, active_guests, pages, panicked, assigned, lock, handle, calls, serial, resetVars>>

\* add_active_guest: try_reserve(1)?, then push(id)
AddPush(c) ==
    /\ At(c, "add_push")
    /\ IF Len(active_guests) >= CapacityLimit
       THEN Return(c, Err("GuestOverflow")) /\ UNCHANGED active_guests
       ELSE /\ Return(c, Ok(cpu[c].local))
            /\ active_guests' = Append(active_guests, cpu[c].local)
    /\ UNCHANGED <<umodeVars, bootVars, next_owner_id, pages, panicked, assigned, lock, handle, calls, serial, resetVars>>

\* rm_active_guest: active_guests.retain(|&id| id != remove_id)
RmRetain(c) ==
    /\ At(c, "rm_retain")
    /\ active_guests' = SelectSeq(active_guests, LAMBDA id : id # cpu[c].id)
    /\ Return(c, Ok(NoId))
    /\ UNCHANGED <<umodeVars, bootVars, next_owner_id, pages, panicked, assigned, lock, handle, calls, serial, resetVars>>

\* set_page_owner: self.pop_exited_owners(addr)
SetPrune(c) ==
    /\ At(c, "set_prune")
    /\ pages' = pop_exited_owners(pages, active_guests, ConcAddr)
    /\ Goto(c, "set_push")
    /\ UNCHANGED <<umodeVars, bootVars, next_owner_id, active_guests, panicked, assigned, lock, handle, calls, serial,
                   resetVars>>

\* set_page_owner: pages.get_mut(addr).ok_or(InvalidPage)?.push_owner(owner)
SetPush(c) ==
    /\ At(c, "set_push")
    /\ IF ~get(pages, ConcAddr)
       THEN Return(c, Err("InvalidPage")) /\ UNCHANGED pages
       ELSE LET r == push_owner(pages[ConcAddr], cpu[c].id)
            IN Return(c, r[2]) /\ pages' = [pages EXCEPT ![ConcAddr] = r[1]]
    /\ UNCHANGED <<umodeVars, bootVars, next_owner_id, active_guests, panicked, assigned, lock, handle, calls, serial,
                   resetVars>>

\* pop_owner: page_tracker.pop_owner_internal(addr)
PopOwner(c) ==
    /\ At(c, "pop")
    /\ LET r == pop_owner_internal(pages, ConcAddr)
       IN Return(c, r[2]) /\ pages' = r[1]
    /\ UNCHANGED <<umodeVars, bootVars, next_owner_id, active_guests, panicked, assigned, lock, handle, calls, serial,
                   resetVars>>

\* owner: page_tracker.owner(addr)
ReadOwner(c) ==
    /\ At(c, "owner")
    /\ Return(c, inner_owner(pages, active_guests, ConcAddr))
    /\ UNCHANGED <<umodeVars, bootVars, trackerVars, lock, handle, calls, serial, resetVars>>

\* The MutexGuard is dropped when the method returns.
MutexUnlock(c) ==
    /\ At(c, "unlock")
    /\ lock' = NoCpu
    /\ Goto(c, "idle")
    /\ UNCHANGED <<umodeVars, bootVars, trackerVars, handle, calls, serial, resetVars>>

(***************************************************************************)
(* Resetting U-mode memory.  A user-RW segment of the U-mode ELF is mapped *)
(* on whole pages; U-mode writes to them while it runs, and the reset puts *)
(* them back.  Offsets are relative to the region's virtual base.          *)
(***************************************************************************)
MaxDataLen == MaxSize + 1

\* The bytes of the segment's data, and the byte U-mode stores.
DataBytes == {0, 1}

UmodeBytes == {2}

\* Option<&[u8]>
NoData == [present |-> FALSE, bytes |-> <<>>]

SomeData(d) == [present |-> TRUE, bytes |-> d]

Perms == {"ReadWrite", "ReadOnly"}

min(a, b) == IF a < b THEN a ELSE b

\* PageSize::Size4k.round_up
round_up(n) == ((n + PageBytes - 1) \div PageBytes) * PageBytes

\* The segments the ELF can hold: size > 0; data absent, or shorter than,
\* equal to or longer than size.
Segments ==
    [perms : Perms, size : 1..MaxSize,
     data : {NoData} \cup
            {SomeData(d) : d \in UNION {[1..n -> DataBytes] : n \in 0..MaxDataLen}}]

\* core::ptr::copy(data, base + off, len)
copy(mem, off, data, len) ==
    [i \in 1..Len(mem) |-> IF i > off /\ i <= off + len THEN data[i - off] ELSE mem[i]]

\* core::ptr::write_bytes(base + off, val, len)
write_bytes(mem, off, val, len) ==
    [i \in 1..Len(mem) |-> IF i > off /\ i <= off + len THEN val ELSE mem[i]]

\* PrivateRegion::map: fresh zeroed pages with the data copied at their start.
map(r) ==
    LET zeroed == [i \in 1..round_up(r.size) |-> 0]
    IN IF r.data.present
       THEN copy(zeroed, 0, r.data.bytes, min(Len(r.data.bytes), r.size))
       ELSE zeroed

\* A faulty restore that clears up to the region's size, not its pages' end.
restore_up_to_size(r, mem) ==
    LET copied == IF r.data.present THEN min(r.size, Len(r.data.bytes)) ELSE 0
        filled == IF r.data.present THEN copy(mem, 0, r.data.bytes, copied) ELSE mem
    IN write_bytes(filled, copied, 0, r.size - copied)

\* PrivateRegion::restore
restore(r, mem) ==
    LET mapped_size == round_up(r.size)
        copied == IF r.data.present THEN min(r.size, Len(r.data.bytes)) ELSE 0
        filled == IF r.data.present THEN copy(mem, 0, r.data.bytes, copied) ELSE mem
    IN write_bytes(filled, copied, 0, mapped_size - copied)

\* UmodeMemoryRange
UmodeMemoryRange(addr, len) == [addr |-> addr, len |-> len]

\* UmodeMemoryRange::offset (called with off < len only)
offset(range, off) == UmodeMemoryRange(range.addr + off, range.len - off)

\* UmodeMemoryRange::copy_to_umode
copy_to_umode(range, data, mem) ==
    copy(mem, range.addr, data, min(Len(data), range.len))

\* UmodeMemoryRange::clear
clear(range, mem) == write_bytes(mem, range.addr, 0, range.len)

\* Umode::init: the reset area of a writable segment.
UmodeResetArea(s) ==
    [range |-> UmodeMemoryRange(0, round_up(s.size)),
     data |-> IF s.data.present
              THEN SomeData(SubSeq(s.data.bytes, 1, min(s.size, Len(s.data.bytes))))
              ELSE NoData]

\* UmodeResetArea::reset
reset(area, mem) ==
    LET copied == IF area.data.present THEN Len(area.data.bytes) ELSE 0
        filled == IF area.data.present
                  THEN copy_to_umode(area.range, area.data.bytes, mem)
                  ELSE mem
    IN IF copied < area.range.len
       THEN clear(offset(area.range, copied), filled)
       ELSE filled

ResetIdle ==
    /\ region = [perms |-> "ReadOnly", size |-> 1, data |-> NoData]
    /\ umem = <<>>
    /\ phase = "off"
    /\ wiped = {}

\* HypMap::init and new_page_table: the segment becomes a private region,
\* mapped and populated.
ResetInit ==
    /\ region \in Segments
    /\ umem = map(region)
    /\ phase = "idle"
    /\ wiped = {}

\* The offsets whose byte U-mode has written.
Written == {i \in 1..Len(umem) : umem[i] \in UmodeBytes}

\* UmodeTask::activate and UmodeActiveTask::run: U-mode starts running.
Activate ==
    /\ phase \in {"idle", "reset"}
    /\ phase' = "running"
    /\ wiped' = {}
    /\ UNCHANGED <<umodeVars, bootVars, trackerVars, concVars, region, umem>>

\* U-mode stores a byte in a page mapped user read-write.
UmodeStore(off, b) ==
    /\ phase = "running"
    /\ region.perms = "ReadWrite"
    /\ off \in 1..Len(umem)
    /\ umem' = [umem EXCEPT ![off] = b]
    /\ UNCHANGED <<umodeVars, bootVars, trackerVars, concVars, region, phase, wiped>>

\* HypPageTable::restore_umode: restore every user-RW private region.
RestoreUmode ==
    /\ phase = "running"
    /\ umem' = IF region.perms = "ReadWrite" THEN restore(region, umem) ELSE umem
    /\ phase' = "reset"
    /\ wiped' = Written
    /\ UNCHANGED <<umodeVars, bootVars, trackerVars, concVars, region>>

\* UmodeActiveTask::reset (also run on drop): reset every reset area.
ResetActiveTask ==
    /\ phase = "running"
    /\ umem' = IF region.perms = "ReadWrite"
               THEN reset(UmodeResetArea(region), umem)
               ELSE umem
    /\ phase' = "reset"
    /\ wiped' = Written
    /\ UNCHANGED <<umodeVars, bootVars, trackerVars, concVars, region>>

(***************************************************************************)
(* The hypervisor map.  The segments of the U-mode ELF become private      *)
(* regions, mapped on physical pages of their own in each CPU's page       *)
(* table.  Addresses count bytes from 0, page numbers count pages from 0;  *)
(* the sequences of bytes are indexed from 1.                              *)
(***************************************************************************)
\* ElfSegmentPerms
ElfSegmentPerms == {"ReadWrite", "ReadOnly", "ReadOnlyExecute"}

\* PageSize::num_4k_pages
num_4k_pages(n) == (n + PageBytes - 1) \div PageBytes

\* PageSize::Size4k.is_aligned
is_aligned(addr) == addr % PageBytes = 0

\* The ELF data of a segment: absent, or longer than every segment.
ElfData == {NoData, SomeData([i \in 1..MaxDataLen |-> 1])}

\* The shapes an ELF segment can have, address apart: its size is a part of
\* a page, or the largest size.
ElfShapes == [size : {1, MaxSize}, perms : ElfSegmentPerms, data : ElfData]

ElfSegment(vaddr, shape) ==
    [vaddr |-> vaddr, size |-> shape.size, perms |-> shape.perms, data |-> shape.data]

\* The U-mode ELF maps: two segments, the second on the page after the
\* first, as the linker script lays them out.
ElfMaps ==
    {<<ElfSegment(0, a), ElfSegment(round_up(a.size), b)>> : a, b \in ElfShapes}

\* UMODE_VA_START: the addresses of the model count bytes from it.
UMODE_VA_START == 0

\* UMODE_VA_SIZE: room for the two segments of the U-mode ELF.
UMODE_VA_SIZE == 2 * round_up(MaxSize)

\* The 64-bit addresses: from address 0 of the code to u64::MAX.
VaBottom == UMODE_VA_START - VaBelow
VaTop == UMODE_VA_START + UMODE_VA_SIZE + VaAbove - 1
Va == VaBottom..VaTop

\* 2^64, and the values of a usize.
VaSpan == VaTop - VaBottom + 1
Lens == 0..(VaSpan - 1)

\* A sum or difference of the code, wrapped to 64 bits.
wrapping_va(v) ==
    IF v > VaTop THEN v - VaSpan ELSE IF v < VaBottom THEN v + VaSpan ELSE v

\* is_umode_addr
is_umode_addr(addr) ==
    addr >= UMODE_VA_START /\ addr < UMODE_VA_START + UMODE_VA_SIZE

\* is_valid_umode_range: "true", "false", or "panic" when addr + len
\* overflows in a build with overflow checks; without them the sum wraps.
is_valid_umode_range(addr, len, overflow_checks) ==
    IF len = 0 \/ ~is_umode_addr(addr) THEN "false"
    ELSE IF addr + len > VaTop /\ overflow_checks THEN "panic"
    ELSE IF is_umode_addr(wrapping_va(wrapping_va(addr + len) - 1)) THEN "true"
    ELSE "false"

\* A faulty from_umode_elf_segment that checks the range before the alignment.
from_umode_elf_segment_range_first(seg) ==
    IF is_valid_umode_range(seg.vaddr, seg.size, TRUE) # "true"
    THEN [kind |-> "err", err |-> "ElfInvalidAddress"]
    ELSE IF ~is_aligned(seg.vaddr)
    THEN [kind |-> "err", err |-> "ElfUnalignedSegment"]
    ELSE [kind |-> "ok",
          region |-> [vaddr |-> seg.vaddr,
                      size |-> seg.size,
                      pte_fields |-> CASE seg.perms = "ReadOnly" -> "UR"
                                       [] seg.perms = "ReadWrite" -> "URW"
                                       [] seg.perms = "ReadOnlyExecute" -> "URX",
                      data |-> seg.data]]

\* PrivateRegion::from_umode_elf_segment.  ElfSegment::new has checked
\* vaddr + size with checked_add, so the sum in is_valid_umode_range does
\* not overflow, whatever the build.
from_umode_elf_segment(seg) ==
    IF ~is_aligned(seg.vaddr)
    THEN [kind |-> "err", err |-> "ElfUnalignedSegment"]
    ELSE IF is_valid_umode_range(seg.vaddr, seg.size, TRUE) # "true"
    THEN [kind |-> "err", err |-> "ElfInvalidAddress"]
    ELSE [kind |-> "ok",
          region |-> [vaddr |-> seg.vaddr,
                      size |-> seg.size,
                      pte_fields |-> CASE seg.perms = "ReadOnly" -> "UR"
                                       [] seg.perms = "ReadWrite" -> "URW"
                                       [] seg.perms = "ReadOnlyExecute" -> "URX",
                      data |-> seg.data]]

\* HypMap::init: the private regions of the segments of the U-mode ELF, or
\* the error of the first segment that has one (collect::<Result<_, _>>()?).
HypMap_init(elf) ==
    LET bad == {i \in 1..Len(elf) : from_umode_elf_segment(elf[i]).kind = "err"}
    IN IF bad # {}
       THEN [kind |-> "err",
             err |-> from_umode_elf_segment(elf[CHOOSE i \in bad : \A j \in bad : i <= j]).err,
             regions |-> <<>>]
       ELSE [kind |-> "ok", err |-> "",
             regions |-> [i \in 1..Len(elf) |-> from_umode_elf_segment(elf[i]).region]]

\* HypPageAlloc: the next free page and the bytes of the pages taken so far.
HypPageAlloc(next_page, bytes) == [next_page |-> next_page, bytes |-> bytes]

\* HypPageAlloc::take_pages: count contiguous clean pages.
take_pages(hyp_mem, count) ==
    [base |-> hyp_mem.next_page,
     hyp_mem |-> HypPageAlloc(hyp_mem.next_page + count,
                              hyp_mem.bytes \o [i \in 1..(count * PageBytes) |-> 0])]

\* The virtual pages of the U-mode area, and the entry of an unmapped one.
VirtPages == 0..(2 * num_4k_pages(MaxSize) - 1)

NoPage == -1

\* PrivateRegion::map on a page table: take the region's pages, copy the
\* data at their start and map them at the region's virtual pages.
PrivateRegion_map(r, sv48, hyp_mem) ==
    LET page_count == num_4k_pages(r.size)
        pages_taken == take_pages(hyp_mem, page_count)
        base == pages_taken.base
        populated ==
            IF r.data.present
            THEN copy(pages_taken.hyp_mem.bytes, base * PageBytes, r.data.bytes,
                      min(Len(r.data.bytes), r.size))
            ELSE pages_taken.hyp_mem.bytes
        first == r.vaddr \div PageBytes
    IN [sv48 |-> [v \in VirtPages |->
                    IF v >= first /\ v < first + page_count
                    THEN base + (v - first)
                    ELSE sv48[v]],
        hyp_mem |-> HypPageAlloc(pages_taken.hyp_mem.next_page, populated)]

RECURSIVE map_private_regions(_, _, _, _)
\* new_page_table: for r in &self.private_regions { r.map(&sv48, hyp_mem) }
map_private_regions(regions, i, sv48, hyp_mem) ==
    IF i > Len(regions)
    THEN [sv48 |-> sv48, hyp_mem |-> hyp_mem]
    ELSE LET m == PrivateRegion_map(regions[i], sv48, hyp_mem)
         IN map_private_regions(regions, i + 1, m.sv48, m.hyp_mem)

\* HypMap::new_page_table: a root page, then every private region.
new_page_table(regions, hyp_mem) ==
    LET root_page == take_pages(hyp_mem, 1)
    IN map_private_regions(regions, 1, [v \in VirtPages |-> NoPage], root_page.hyp_mem)

\* PerCpu::init: one page table per CPU, the boot CPU's first.
PerCpu_init(regions) ==
    LET pt0 == new_page_table(regions, HypPageAlloc(0, <<>>))
        pt1 == new_page_table(regions, pt0.hyp_mem)
    IN [page_table |-> [c \in CPUs |-> IF c = "cpu0" THEN pt0.sv48 ELSE pt1.sv48],
        bytes |-> pt1.hyp_mem.bytes]

\* The index in phys of the byte at virtual address va of CPU c's page
\* table, 0 when va is not mapped.
translate(c, va) ==
    LET page == IF (va \div PageBytes) \in VirtPages
                THEN tables[c][va \div PageBytes]
                ELSE NoPage
    IN IF page = NoPage THEN 0 ELSE page * PageBytes + (va % PageBytes) + 1

\* The end of the mapped U-mode area.
UmodeEnd ==
    LET last == private_regions[Len(private_regions)]
    IN last.vaddr + round_up(last.size)

\* The U-mode area as CPU c sees it through its page table (satp).
umode_area(c, bytes) == [i \in 1..UmodeEnd |-> bytes[translate(c, i - 1)]]

\* The physical bytes once CPU c's U-mode area holds `area'.
through(c, bytes, area) ==
    [p \in 1..Len(bytes) |->
        LET vs == {v \in VirtPages : tables[c][v] = (p - 1) \div PageBytes}
        IN IF vs = {}
           THEN bytes[p]
           ELSE area[(CHOOSE v \in vs : TRUE) * PageBytes + ((p - 1) % PageBytes) + 1]]

\* PrivateRegion::restore, on the U-mode area the region is mapped in.
restore_private_region(r, area) ==
    LET mapped_size == round_up(r.size)
        copied == IF r.data.present THEN min(r.size, Len(r.data.bytes)) ELSE 0
        filled == IF r.data.present
                  THEN copy(area, r.vaddr, r.data.bytes, copied)
                  ELSE area
    IN write_bytes(filled, r.vaddr + copied, 0, mapped_size - copied)

RECURSIVE restore_each(_, _, _)
restore_each(regions, i, area) ==
    IF i > Len(regions)
    THEN area
    ELSE restore_each(regions, i + 1,
                      IF regions[i].pte_fields = "URW"
                      THEN restore_private_region(regions[i], area)
                      ELSE area)

\* A faulty restore_umode that stops after the first user-RW region.
restore_umode_first_only(regions, area) ==
    IF \E i \in 1..Len(regions) : regions[i].pte_fields = "URW"
    THEN LET i == CHOOSE i \in 1..Len(regions) :
                     /\ regions[i].pte_fields = "URW"
                     /\ \A j \in 1..(i - 1) : regions[j].pte_fields # "URW"
         IN restore_private_region(regions[i], area)
    ELSE area

\* HypPageTable::restore_umode
restore_umode(regions, area) == restore_each(regions, 1, area)

\* Maximum number of reset areas.
MAX_RESET_AREAS == 2

RECURSIVE reset_areas_from(_, _, _)
\* Umode::init: a reset area for every writable segment of the ELF, over
\* the whole pages mapped for it.
reset_areas_from(elf, i, areas) ==
    IF i > Len(elf)
    THEN [kind |-> "ok", reset_areas |-> areas]
    ELSE IF elf[i].perms # "ReadWrite"
    THEN reset_areas_from(elf, i + 1, areas)
    ELSE LET s == elf[i]
             mapped_size == round_up(s.size)
             reset_area ==
                 [range |-> UmodeMemoryRange(s.vaddr, mapped_size),
                  data |-> IF s.data.present
                           THEN SomeData(SubSeq(s.data.bytes, 1,
                                                min(s.size, Len(s.data.bytes))))
                           ELSE NoData]
         IN IF Len(areas) >= MAX_RESET_AREAS
            THEN [kind |-> "err", reset_areas |-> <<>>]
            ELSE reset_areas_from(elf, i + 1, Append(areas, reset_area))

Umode_init(elf) == reset_areas_from(elf, 1, <<>>)

RECURSIVE reset_each(_, _, _)
\* UmodeActiveTask::reset: for r in &self.umode.reset_areas { r.reset() }
reset_each(areas, i, area) ==
    IF i > Len(areas)
    THEN area
    ELSE reset_each(areas, i + 1, reset(areas[i], area))

MapIdle ==
    /\ private_regions = <<>>
    /\ reset_areas = <<>>
    /\ phys = <<>>
    /\ built = <<>>
    /\ tables = [c \in CPUs |-> <<>>]
    /\ running = [c \in CPUs |-> FALSE]

\* HypMap::init, Umode::init and PerCpu::init have succeeded on the ELF.
MapInitWith(elf) ==
    /\ HypMap_init(elf).kind = "ok"
    /\ Umode_init(elf).kind = "ok"
    /\ private_regions = HypMap_init(elf).regions
    /\ reset_areas = Umode_init(elf).reset_areas
    /\ LET pcpu == PerCpu_init(HypMap_init(elf).regions)
       IN /\ tables = pcpu.page_table
          /\ phys = pcpu.bytes
          /\ built = pcpu.bytes
    /\ running = [c \in CPUs |-> FALSE]

MapInit == \E elf \in ElfMaps : MapInitWith(elf)

\* The physical bytes that hold a value U-mode stored.
Dirty == {p \in 1..Len(phys) : phys[p] \in UmodeBytes}

\* The virtual addresses of region r's mapped pages.
MappedRange(r) == r.vaddr..(r.vaddr + round_up(r.size) - 1)

\* The virtual addresses U-mode can store to: the pages mapped URW.
UserWritable ==
    UNION {MappedRange(private_regions[i]) :
             i \in {j \in 1..Len(private_regions) : private_regions[j].pte_fields = "URW"}}

\* UmodeTask::activate and run_to_exit: CPU c enters U-mode.
EnterUmode(c) ==
    /\ ~running[c]
    /\ running' = [running EXCEPT ![c] = TRUE]
    /\ UNCHANGED <<baseVars, taskVars, moreVars, private_regions, reset_areas, phys, built, tables>>

\* U-mode on CPU c stores a byte at a virtual address mapped user-RW.
StoreByte(c, va, b) ==
    /\ running[c]
    /\ va \in UserWritable
    /\ Cardinality(Dirty) < MaxDirty
    /\ phys' = [phys EXCEPT ![translate(c, va)] = b]
    /\ UNCHANGED <<baseVars, taskVars, moreVars, private_regions, reset_areas, built, tables, running>>

\* U-mode has returned on CPU c; the hypervisor calls
\* HypPageTable::restore_umode with c's page table in satp.
RestorePrivateRegions(c) ==
    /\ running[c]
    /\ phys' = through(c, phys, restore_umode(private_regions, umode_area(c, phys)))
    /\ running' = [running EXCEPT ![c] = FALSE]
    /\ UNCHANGED <<baseVars, taskVars, moreVars, private_regions, reset_areas, built, tables>>

\* U-mode has returned on CPU c; UmodeActiveTask::reset (also run on drop)
\* resets every reset area.
ResetAreas(c) ==
    /\ running[c]
    /\ phys' = through(c, phys, reset_each(reset_areas, 1, umode_area(c, phys)))
    /\ running' = [running EXCEPT ![c] = FALSE]
    /\ UNCHANGED <<baseVars, taskVars, moreVars, private_regions, reset_areas, built, tables>>

(***************************************************************************)
(* The per-CPU U-mode task of one CPU: its register state, the two RefCells   *)
(* that guard it, and a run of U-mode up to the trap that ends it.         *)
(***************************************************************************)
TaskCpu == "cpu1"

\* ElfMap::entry of the U-mode ELF.
ElfEntry == 16

\* scause: the interrupt bit and the cause code.
Scause(interrupt, code) == [interrupt |-> interrupt, code |-> code]

UserEnvCall == Scause(FALSE, 8)

LoadPageFault == Scause(FALSE, 13)

SupervisorTimer == Scause(TRUE, 5)

\* An exception code the architecture reserves.
ReservedCause == Scause(FALSE, 24)

\* The scause values a trap from U-mode can leave.
Causes == {UserEnvCall, LoadPageFault, SupervisorTimer, ReservedCause}

\* Trap::from_scause: the causes it knows, Err for any other.
Trap_from_scause(scause) ==
    IF scause \in {UserEnvCall, LoadPageFault, SupervisorTimer}
    THEN [kind |-> "ok", trap |-> scause]
    ELSE [kind |-> "err", trap |-> scause]

\* UmodeCpuArchState::default: every register zero.  `others' stands for
\* every U-mode register but a0, a1, a2, a7 and sepc; host_regs for the
\* whole host save area.
UmodeCpuArchState_default ==
    [host_regs |-> 0,
     umode_regs |-> [sepc |-> 0, a0 |-> 0, a1 |-> 0, a2 |-> 0, a7 |-> 0, others |-> 0],
     trap_csrs |-> [scause |-> Scause(FALSE, 0), stval |-> 0]]

\* Umode::cpu_task: the arch state of a new task.
cpu_task(entry) == [UmodeCpuArchState_default EXCEPT !.umode_regs.sepc = entry]

\* RefCell::try_borrow_mut().ok()
try_borrow_mut(borrowed) ==
    IF borrowed THEN [kind |-> "None"] ELSE [kind |-> "Some"]

\* UmodeTask::activate
activate(arch_borrowed) == try_borrow_mut(arch_borrowed)

\* UmodeActiveTask::reset: the reset areas, then the registers.
UmodeActiveTask_reset(areas, area, entry) ==
    [area |-> reset_each(areas, 1, area),
     arch |-> [UmodeCpuArchState_default EXCEPT !.umode_regs.sepc = entry]]

\* A faulty drop that releases the borrow and resets nothing.
drop_without_reset(areas, area, entry, a) == [area |-> area, arch |-> a]

\* Drop for UmodeActiveTask
UmodeActiveTask_drop(areas, area, entry, a) == UmodeActiveTask_reset(areas, area, entry)

\* UmodeActiveTask::run, once run_to_exit has saved the trap in `a'.
run(a) ==
    LET trap == Trap_from_scause(a.trap_csrs.scause)
    IN IF trap.kind = "err"
       THEN [arch |-> a, ret |-> "panic"]
       ELSE IF trap.trap = UserEnvCall
       THEN [arch |-> a, ret |-> "Ok"]
       ELSE [arch |-> a, ret |-> "UnexpectedTrap"]

TaskIdle ==
    /\ umode_task = "off"
    /\ arch = UmodeCpuArchState_default
    /\ task_ref = FALSE
    /\ arch_ref = FALSE
    /\ act_ret = "none"
    /\ run_ret = "none"
    /\ ended = [how |-> "none", dirty |-> FALSE]
    /\ abort_cause = "none"
    /\ trap_pc = 0

\* PerCpu::init has run; set_umode_task has not.
TaskInit ==
    /\ umode_task = "unset"
    /\ arch = UmodeCpuArchState_default
    /\ task_ref = FALSE
    /\ arch_ref = FALSE
    /\ act_ret = "none"
    /\ run_ret = "none"
    /\ ended = [how |-> "none", dirty |-> FALSE]
    /\ abort_cause = "none"
    /\ trap_pc = 0

\* The hypervisor is executing on the task's CPU and has not panicked.
InHypervisor == abort_cause = "none" /\ ~running[TaskCpu]

\* PerCpu::set_umode_task(umode.cpu_task())
SetUmodeTask ==
    /\ umode_task = "unset"
    /\ umode_task' = "set"
    /\ arch' = cpu_task(ElfEntry)
    /\ UNCHANGED <<baseVars, moreVars, mapVars, task_ref, arch_ref, act_ret, run_ret, ended,
                   abort_cause, trap_pc>>

\* PerCpu::umode_task_mut: borrow_mut() on the RefCell<UmodeTask>, which
\* panics while an earlier RefMut is alive.
UmodeTaskMut ==
    /\ umode_task = "set"
    /\ InHypervisor
    /\ IF task_ref
       THEN abort_cause' = "already borrowed" /\ UNCHANGED task_ref
       ELSE task_ref' = TRUE /\ UNCHANGED abort_cause
    /\ UNCHANGED <<baseVars, moreVars, mapVars, umode_task, arch, arch_ref, act_ret, run_ret,
                   ended, trap_pc>>

\* task.activate() through the RefMut<UmodeTask> the caller holds.
ActivateTask ==
    /\ task_ref
    /\ InHypervisor
    /\ act_ret' = activate(arch_ref).kind
    /\ arch_ref' = TRUE
    /\ run_ret' = IF arch_ref THEN run_ret ELSE "none"
    /\ UNCHANGED <<baseVars, moreVars, mapVars, umode_task, arch, task_ref, ended, abort_cause,
                   trap_pc>>

\* The RefMut<UmodeTask> goes out of scope; the borrow checker lets it only
\* once the active task that borrows from it is gone.
DropTaskRef ==
    /\ task_ref
    /\ ~arch_ref
    /\ InHypervisor
    /\ task_ref' = FALSE
    /\ UNCHANGED <<baseVars, moreVars, mapVars, umode_task, arch, arch_ref, act_ret, run_ret,
                   ended, abort_cause, trap_pc>>

\* UmodeActiveTask::run: run_to_exit saves the host registers and enters
\* U-mode at sepc.
RunToExit ==
    /\ arch_ref
    /\ InHypervisor
    /\ running' = [running EXCEPT ![TaskCpu] = TRUE]
    /\ arch' = [arch EXCEPT !.host_regs = 1]
    /\ run_ret' = "running"
    /\ UNCHANGED <<baseVars, moreVars, private_regions, reset_areas, phys, built, tables,
                   umode_task, task_ref, arch_ref, act_ret, ended, abort_cause, trap_pc>>

\* U-mode traps after `insns' instructions with the given cause and with a0
\* and a7 as given; _run_umode saves its registers and run_to_exit the trap
\* CSRs, and run() matches on the cause.
UmodeTrap(insns, cause, a0, a7) ==
    /\ umode_task = "set"
    /\ running[TaskCpu]
    /\ arch.umode_regs.sepc + 4 * insns <= ElfEntry + 4 * MaxInsns
    /\ LET pc == arch.umode_regs.sepc + 4 * insns
           saved == [arch EXCEPT
                       !.umode_regs = [sepc |-> pc, a0 |-> a0, a1 |-> 1, a2 |-> 1,
                                       a7 |-> a7, others |-> 1],
                       !.trap_csrs = [scause |-> cause,
                                      stval |-> IF cause = LoadPageFault THEN 1 ELSE 0]]
           out == run(saved)
       IN /\ arch' = out.arch
          /\ run_ret' = out.ret
          /\ abort_cause' = IF out.ret = "panic" THEN "from_scause" ELSE abort_cause
          /\ trap_pc' = pc
    /\ running' = [running EXCEPT ![TaskCpu] = FALSE]
    /\ UNCHANGED <<baseVars, moreVars, private_regions, reset_areas, phys, built, tables,
                   umode_task, task_ref, arch_ref, act_ret, ended>>

\* An explicit UmodeActiveTask::reset by the holder of the active task.
ResetTask ==
    /\ arch_ref
    /\ InHypervisor
    /\ LET out == UmodeActiveTask_reset(reset_areas, umode_area(TaskCpu, phys), ElfEntry)
       IN /\ phys' = through(TaskCpu, phys, out.area)
          /\ arch' = out.arch
    /\ UNCHANGED <<baseVars, moreVars, private_regions, reset_areas, built, tables, running,
                   umode_task, task_ref, arch_ref, act_ret, run_ret, ended,
                   abort_cause, trap_pc>>

\* The active task is dropped: Drop runs, then the RefMut on the arch state
\* is released.
DropActiveTask ==
    /\ arch_ref
    /\ InHypervisor
    /\ LET out == UmodeActiveTask_drop(reset_areas, umode_area(TaskCpu, phys), ElfEntry, arch)
       IN /\ phys' = through(TaskCpu, phys, out.area)
          /\ arch' = out.arch
    /\ arch_ref' = FALSE
    /\ ended' = [how |-> IF run_ret = "none" THEN "unrun" ELSE run_ret,
                 dirty |-> arch # cpu_task(ElfEntry) /\ Dirty # {}]
    /\ UNCHANGED <<baseVars, moreVars, private_regions, reset_areas, built, tables, running,
                   umode_task, task_ref, act_ret, run_ret, abort_cause, trap_pc>>

(***************************************************************************)
(* Passing hypcalls and requests through the registers a0..a7.             *)
(***************************************************************************)
HYPC_PANIC == 0

HYPC_PUTCHAR == 1

HYPC_NEXTOP == 2

\* The two versions of the API crate in the tree: u-mode-api, and the
\* umode-api that libuser and umode/src/main.rs are built on.
Apis == {"u-mode-api", "umode-api"}

\* u64 and u8 values: `as u64' and `as u8' keep the low bits.
U64 == 0..U64Max

U8 == 0..U8Max

as_u8(v) == v % (U8Max + 1)

wrapping(v) == v % (U64Max + 1)

\* The eight registers a0..a7.
Registers == [0..7 -> U64]

\* Error: the variants of each version, in the order of their codes.
Errors(api) ==
    IF api = "u-mode-api"
    THEN <<"Failed", "InvalidArgument", "EcallNotSupported", "RequestNotSupported">>
    ELSE <<"Failed", "EcallNotSupported", "RequestNotSupported">>

\* `*e as u64'
Error_as_u64(api, e) == CHOOSE i \in 1..Len(Errors(api)) : Errors(api)[i] = e

\* impl From<u64> for Error
Error_from(api, val) ==
    IF val \in 1..Len(Errors(api)) THEN Errors(api)[val] ELSE "Failed"

\* Result<(), Error>
OkUnit == [ok |-> TRUE, error |-> "none"]

ErrOf(e) == [ok |-> FALSE, error |-> e]

HYPC_SUCCESS == 0

\* Result::from_registers
Result_from_registers(api, regs) ==
    IF regs[0] = HYPC_SUCCESS THEN OkUnit ELSE ErrOf(Error_from(api, regs[0]))

\* Result::to_registers (set_registers in umode-api)
Result_to_registers(api, result, regs) ==
    IF result.ok
    THEN [regs EXCEPT ![0] = HYPC_SUCCESS]
    ELSE [regs EXCEPT ![0] = Error_as_u64(api, result.error)]

\* UmodeOp: the operations of each version, in the order of their codes.
UmodeOps(api) ==
    IF api = "u-mode-api"
    THEN <<"Nop", "PrintString", "MemCopy", "GetEvidence">>
    ELSE <<"Nop", "Hello">>

\* `self.op as u64'
UmodeOp_as_u64(api, op) == CHOOSE i \in 1..Len(UmodeOps(api)) : UmodeOps(api)[i] = op

\* What a decoder returns.
Decoded(v) == [kind |-> "ok", val |-> v, err |-> "none"]

DecodeErr(e) == [kind |-> "err", val |-> <<>>, err |-> e]

\* impl TryFrom<u64> for UmodeOp
UmodeOp_try_from(api, reg) ==
    IF reg \in 1..Len(UmodeOps(api))
    THEN Decoded(UmodeOps(api)[reg])
    ELSE DecodeErr("RequestNotSupported")

\* Option<u64>
NoAddr == [some |-> FALSE, val |-> 0]

SomeAddr(v) == [some |-> TRUE, val |-> v]

\* UmodeRequest; umode-api's has no state_addr and state_len.
UmodeRequest(api, op, in_addr, in_len, out_addr, out_len, state_addr, state_len) ==
    IF api = "u-mode-api"
    THEN [op |-> op, in_addr |-> in_addr, in_len |-> in_len, out_addr |-> out_addr,
          out_len |-> out_len, state_addr |-> state_addr, state_len |-> state_len]
    ELSE [op |-> op, in_addr |-> in_addr, in_len |-> in_len, out_addr |-> out_addr,
          out_len |-> out_len]

\* UmodeRequest::nop
nop(api) == UmodeRequest(api, "Nop", NoAddr, 0, NoAddr, 0, NoAddr, 0)

\* UmodeRequest::hello (umode-api)
hello == UmodeRequest("umode-api", "Hello", NoAddr, 0, NoAddr, 0, NoAddr, 0)

\* UmodeRequest::print_string (u-mode-api)
print_string(addr, len) ==
    UmodeRequest("u-mode-api", "PrintString", SomeAddr(addr), len, NoAddr, 0, NoAddr, 0)

\* out_addr + len - 1 leaves u64: a debug build panics, a release build wraps.
memcopy_overflows(out_addr, in_addr, len) ==
    \/ out_addr + len = 0
    \/ in_addr + len = 0
    \/ out_addr + len > U64Max
    \/ in_addr + len > U64Max

max(a, b) == IF a > b THEN a ELSE b

\* UmodeRequest::memcopy (u-mode-api), in a build that wraps on overflow or
\* in one that panics on it.
memcopy(out_addr, in_addr, len, wraps) ==
    LET out_end == wrapping(out_addr + len + U64Max)
        in_end == wrapping(in_addr + len + U64Max)
        overlap == max(out_addr, in_addr) <= min(out_end, in_end)
    IN IF memcopy_overflows(out_addr, in_addr, len) /\ ~wraps
       THEN [kind |-> "panic", val |-> <<>>]
       ELSE IF overlap
       THEN [kind |-> "None", val |-> <<>>]
       ELSE [kind |-> "Some",
             val |-> UmodeRequest("u-mode-api", "MemCopy", SomeAddr(in_addr), len,
                                  SomeAddr(out_addr), len, NoAddr, 0)]

\* UmodeRequest::get_evidence (u-mode-api)
get_evidence(csr_addr, csr_len, certout_addr, certout_len, layer_state_addr, layer_state_len) ==
    UmodeRequest("u-mode-api", "GetEvidence", SomeAddr(csr_addr), csr_len,
                 SomeAddr(certout_addr), certout_len,
                 SomeAddr(layer_state_addr), layer_state_len)

\* if regs[i] == 0 { None } else { Some(regs[i]) }
addr_from(reg) == IF reg = 0 THEN NoAddr ELSE SomeAddr(reg)

\* if let Some(val) = addr { val } else { 0 }
addr_to(addr) == IF addr.some THEN addr.val ELSE 0

\* UmodeRequest::try_from_registers
UmodeRequest_try_from_registers(api, regs) ==
    LET op == UmodeOp_try_from(api, regs[0])
    IN IF op.kind = "err"
       THEN DecodeErr(op.err)
       ELSE Decoded(UmodeRequest(api, op.val, addr_from(regs[1]), regs[2],
                                 addr_from(regs[3]), regs[4],
                                 addr_from(regs[5]), regs[6]))

\* UmodeRequest::to_registers (set_registers in umode-api)
UmodeRequest_to_registers(api, req, regs) ==
    LET five == [regs EXCEPT ![0] = UmodeOp_as_u64(api, req.op),
                             ![1] = addr_to(req.in_addr),
                             ![2] = req.in_len,
                             ![3] = addr_to(req.out_addr),
                             ![4] = req.out_len]
    IN IF api = "u-mode-api"
       THEN [five EXCEPT ![5] = addr_to(req.state_addr), ![6] = req.state_len]
       ELSE five

\* HypCall
HypCall_Panic == [call |-> "Panic", byte |-> 0, result |-> OkUnit]

HypCall_PutChar(b) == [call |-> "PutChar", byte |-> b, result |-> OkUnit]

HypCall_NextOp(r) == [call |-> "NextOp", byte |-> 0, result |-> r]

\* HypCall::try_from_registers
HypCall_try_from_registers(api, regs) ==
    CASE regs[7] = HYPC_PANIC -> Decoded(HypCall_Panic)
      [] regs[7] = HYPC_PUTCHAR -> Decoded(HypCall_PutChar(as_u8(regs[0])))
      [] regs[7] = HYPC_NEXTOP -> Decoded(HypCall_NextOp(Result_from_registers(api, regs)))
      [] OTHER -> DecodeErr("EcallNotSupported")

\* A faulty encoder that leaves a7 as it was for a Panic.
to_registers_without_panic_tag(api, hypc, regs) ==
    CASE hypc.call = "Panic" -> regs
      [] hypc.call = "PutChar" -> [regs EXCEPT ![0] = hypc.byte, ![7] = HYPC_PUTCHAR]
      [] hypc.call = "NextOp" ->
            [Result_to_registers(api, hypc.result, regs) EXCEPT ![7] = HYPC_NEXTOP]

\* HypCall::to_registers (set_registers in umode-api)
HypCall_to_registers(api, hypc, regs) ==
    CASE hypc.call = "Panic" -> [regs EXCEPT ![7] = HYPC_PANIC]
      [] hypc.call = "PutChar" -> [regs EXCEPT ![0] = hypc.byte, ![7] = HYPC_PUTCHAR]
      [] hypc.call = "NextOp" ->
            [Result_to_registers(api, hypc.result, regs) EXCEPT ![7] = HYPC_NEXTOP]

\* The arguments the hypervisor passes to the request constructors.
ArgValues == {0, 1, U64Max}

\* Every UmodeRequest the API of a version can construct.
Requests(api) ==
    IF api = "umode-api"
    THEN {nop(api), hello}
    ELSE {nop(api)}
         \cup {print_string(a, l) : a, l \in ArgValues}
         \cup {memcopy(o, i, l, w).val :
                 <<o, i, l, w>> \in {t \in ArgValues \X ArgValues \X ArgValues \X BOOLEAN :
                                       memcopy(t[1], t[2], t[3], t[4]).kind = "Some"}}
         \cup {get_evidence(t[1], t[2], t[3], t[4], t[5], t[6]) :
                 t \in ArgValues \X ArgValues \X ArgValues \X ArgValues \X ArgValues \X ArgValues}

\* Every result and every HypCall of a version.
Results(api) == {OkUnit} \cup {ErrOf(Errors(api)[i]) : i \in 1..Len(Errors(api))}

HypCalls(api) ==
    {HypCall_Panic}
        \cup {HypCall_PutChar(b) : b \in U8}
        \cup {HypCall_NextOp(r) : r \in Results(api)}

\* What the registers hold before an encoder writes to them.
PriorRegisters == {[i \in 0..7 |-> v] : v \in U64}

\* Nothing has been decoded: the registers hold their prior contents, or
\* what the encoder wrote.
Prior == [kind |-> "prior", val |-> <<>>, err |-> "none"]

Encoded == [kind |-> "encoded", val |-> <<>>, err |-> "none"]

CodecIdle ==
    /\ cval = <<>>
    /\ cregs = <<>>
    /\ cdec = Prior

\* The arguments of a call of UmodeRequest::memcopy, in a build that wraps
\* on overflow or in one that panics on it.
MemcopyArgs == [out_addr : U64, in_addr : U64, len : U64, wraps : BOOLEAN]

\* One side holds a UmodeRequest or a HypCall to pass, or only a register
\* image to decode, or the hypervisor is about to build a MemCopy request.
CodecInit ==
    /\ cval \in {[api |-> api, type |-> "UmodeRequest", val |-> r] :
                   <<api, r>> \in {t \in Apis \X UNION {Requests(x) : x \in Apis} :
                                     t[2] \in Requests(t[1])}}
           \cup {[api |-> api, type |-> "HypCall", val |-> h] :
                   <<api, h>> \in {t \in Apis \X UNION {HypCalls(x) : x \in Apis} :
                                     t[2] \in HypCalls(t[1])}}
           \cup {[api |-> api, type |-> "registers", val |-> <<>>] : api \in Apis}
           \cup {[api |-> "u-mode-api", type |-> "memcopy", val |-> args] :
                   args \in MemcopyArgs}
    /\ cregs \in PriorRegisters
    /\ cval.type = "memcopy" => cregs = [i \in 0..7 |-> 0]
    /\ cdec = Prior

\* The sender writes the value into the registers.
ToRegisters ==
    /\ cdec = Prior
    /\ cval.type \in {"UmodeRequest", "HypCall"}
    /\ cregs' = IF cval.type = "UmodeRequest"
                THEN UmodeRequest_to_registers(cval.api, cval.val, cregs)
                ELSE HypCall_to_registers(cval.api, cval.val, cregs)
    /\ cdec' = Encoded
    /\ UNCHANGED <<baseVars, mapVars, taskVars, loopVars, cval>>

\* The receiver decodes the registers the sender wrote.
TryFromRegisters ==
    /\ cdec = Encoded
    /\ cdec' = IF cval.type = "UmodeRequest"
               THEN UmodeRequest_try_from_registers(cval.api, cregs)
               ELSE HypCall_try_from_registers(cval.api, cregs)
    /\ UNCHANGED <<baseVars, mapVars, taskVars, loopVars, cval, cregs>>

\* The hypervisor decodes the registers of an ecall as a HypCall.
DecodeEcall ==
    /\ cdec = Prior
    /\ cval.type = "registers"
    /\ cdec' = HypCall_try_from_registers(cval.api, cregs)
    /\ UNCHANGED <<baseVars, mapVars, taskVars, loopVars, cval, cregs>>

\* The hypervisor calls UmodeRequest::memcopy.
Memcopy ==
    /\ cdec = Prior
    /\ cval.type = "memcopy"
    /\ cdec' = memcopy(cval.val.out_addr, cval.val.in_addr, cval.val.len, cval.val.wraps)
    /\ UNCHANGED <<baseVars, mapVars, taskVars, loopVars, cval, cregs>>

\* The decoder of the U-mode binary that runs run_loop: it matches on
\* requests that carry their own arguments, laid out in the registers as
\* the register conventions give them.
request_from_registers(regs) ==
    CASE regs[0] = 1 -> Decoded([op |-> "Nop"])
      [] regs[0] = 2 -> Decoded([op |-> "PrintString", len |-> regs[1]])
      [] regs[0] = 3 ->
            Decoded([op |-> "MemCopy", out_addr |-> regs[1], in_addr |-> regs[2],
                     len |-> regs[3]])
      [] regs[0] = 4 ->
            Decoded([op |-> "GetEvidence", csr_addr |-> regs[1], csr_len |-> regs[2],
                     certout_addr |-> regs[3], certout_len |-> regs[4]])
      [] OTHER -> DecodeErr("RequestNotSupported")

\* The CpuId of the task's CPU and the shared region mapped for it.
TaskCpuId == 1

SharedRegion == [base |-> 32, size |-> 2]

(***************************************************************************)
(* The U-mode request loop and the NextOp hypcall.                         *)
(***************************************************************************)
\* The two U-mode binaries in the tree: u-mode/src/main.rs (run_loop) and
\* umode/src/main.rs (task_main); and the two hypervisors: umode.rs, whose
\* run() returns on every ecall, and the dispatch loop of the
\* specification, which resumes U-mode with the next request.
UmodeDrafts == {"run_loop", "task_main"}

HypDrafts == {"umode.rs", "dispatch"}

\* The API version a U-mode binary is built on.
ApiOf(umode) == IF umode = "run_loop" THEN "u-mode-api" ELSE "umode-api"

\* let mut regs = [0u64; 8]
ZeroRegs == [i \in 0..7 |-> 0]

\* The A-registers U-mode starts with: umode.rs sets only sepc; the
\* dispatching hypervisor passes the CPU id and the shared region.
StartRegs(hyp) ==
    IF hyp = "umode.rs"
    THEN ZeroRegs
    ELSE [ZeroRegs EXCEPT ![0] = TaskCpuId, ![1] = SharedRegion.base, ![2] = SharedRegion.size]

\* The registers of a request as the dispatching hypervisor writes them:
\* the op tag in a0 and its first argument in a1.
RequestRegs(tag, a1) == [ZeroRegs EXCEPT ![0] = tag, ![1] = a1]

\* The requests the dispatching hypervisor returns to a U-mode binary: a
\* Nop, the binary's second operation (PrintString with a length that fits
\* the shared region or exceeds it, or Hello), and an op tag that the
\* binary does not know.
NextRequests(umode) ==
    IF umode = "run_loop"
    THEN {RequestRegs(1, 0), RequestRegs(2, 1), RequestRegs(2, SharedRegion.size + 1),
          RequestRegs(0, 0)}
    ELSE {RequestRegs(1, 0), RequestRegs(2, 0), RequestRegs(0, 0)}

\* hyp_nextop up to its ecall: the registers of HypCall::NextOp(result).
nextop_registers(umode, result) ==
    HypCall_to_registers(ApiOf(umode), HypCall_NextOp(result), ZeroRegs)

\* ecall: a0 and a1 are inlateout, a2..a7 are inputs only, so only a0 and
\* a1 of what the hypervisor returned reach the array.
ecall(regs, returned) == [i \in 0..7 |-> IF i \in {0, 1} THEN returned[i] ELSE regs[i]]

\* hyp_nextop after its ecall: the request it returns.  run_loop matches
\* on an enum of requests with their arguments; its decoder takes the op
\* tag from a0 and the length of PrintString from a1.
hyp_nextop(umode, result, returned) ==
    IF umode = "task_main"
    THEN UmodeRequest_try_from_registers(
             "umode-api", ecall(nextop_registers(umode, result), returned))
    ELSE LET op == UmodeOp_try_from("u-mode-api", returned[0])
         IN IF op.kind = "err"
            THEN DecodeErr(op.err)
            ELSE Decoded([op |-> op.val, len |-> returned[1]])

\* _libuser_start: the registers task_main's binary starts with are decoded
\* as its first request.
initial_request(regs) == UmodeRequest_try_from_registers("umode-api", regs)

\* The results one pass of the loop body can give for a request.
\* op_print_string fails when the length exceeds the shared region or the
\* bytes are not UTF-8; op_get_evidence fails on a bad CSR or buffer.
loop_body(umode, req) ==
    IF req.kind = "err"
    THEN {ErrOf(req.err)}
    ELSE IF umode = "task_main"
    THEN {OkUnit}
    ELSE CASE req.val.op = "Nop" -> {OkUnit}
           [] req.val.op = "PrintString" ->
                 IF req.val.len > SharedRegion.size
                 THEN {ErrOf("InvalidArgument")}
                 ELSE {OkUnit, ErrOf("InvalidArgument")}
           [] req.val.op = "MemCopy" -> {OkUnit}
           [] req.val.op = "GetEvidence" ->
                 {OkUnit, ErrOf("InvalidArgument"), ErrOf("Failed")}

LoopIdle ==
    /\ draft = [umode |-> "none", hyp |-> "none"]
    /\ loop_pos = "off"
    /\ loop_res = OkUnit
    /\ a_regs = <<>>
    /\ issued = <<>>
    /\ received = <<>>

\* The hypervisor has activated the task of some U-mode binary.
LoopInit ==
    /\ draft \in [umode : UmodeDrafts, hyp : HypDrafts]
    /\ loop_pos = "start"
    /\ loop_res = OkUnit
    /\ a_regs = StartRegs(draft.hyp)
    /\ issued = <<>>
    /\ received = <<>>

\* U-mode runs from its entry to the loop: run_loop sets res = Ok(0) and
\* calls hyp_nextop; task_main handles the request it was started with and
\* calls hyp_nextop with the result.
EnterLoop(r) ==
    /\ loop_pos = "start"
    /\ r \in IF draft.umode = "run_loop"
             THEN {OkUnit}
             ELSE loop_body(draft.umode, initial_request(a_regs))
    /\ loop_res' = r
    /\ a_regs' = nextop_registers(draft.umode, r)
    /\ loop_pos' = "ecall"
    /\ UNCHANGED <<baseVars, mapVars, taskVars, codecVars, draft, issued, received>>

\* The ecall of hyp_nextop traps into the hypervisor with the registers of
\* NextOp(res).
NextOpTrap ==
    /\ loop_pos = "ecall"
    /\ Len(received) < MaxNextOps
    /\ received' = Append(received, HypCall_try_from_registers(ApiOf(draft.umode), a_regs))
    /\ loop_pos' = "trapped"
    /\ UNCHANGED <<baseVars, mapVars, taskVars, codecVars, draft, loop_res, a_regs, issued>>

\* umode.rs: run() returns Ok(()) on the ecall, with sepc still on it.
ExitOnEcall ==
    /\ loop_pos = "trapped"
    /\ draft.hyp = "umode.rs"
    /\ loop_pos' = "exited"
    /\ UNCHANGED <<baseVars, mapVars, taskVars, codecVars, draft, loop_res, a_regs, issued,
                   received>>

\* umode.rs: a further run() of the active task enters U-mode at sepc, the
\* ecall, with the registers U-mode trapped with.
RunAgain ==
    /\ loop_pos = "exited"
    /\ loop_pos' = "ecall"
    /\ UNCHANGED <<baseVars, mapVars, taskVars, codecVars, draft, loop_res, a_regs, issued,
                   received>>

\* The dispatching hypervisor: it steps over the ecall, writes the next
\* request into the registers and resumes U-mode.
ReturnNextRequest(req) ==
    /\ loop_pos = "trapped"
    /\ draft.hyp = "dispatch"
    /\ req \in NextRequests(draft.umode)
    /\ issued' = Append(issued, req)
    /\ a_regs' = req
    /\ loop_pos' = "resumed"
    /\ UNCHANGED <<baseVars, mapVars, taskVars, codecVars, draft, loop_res, received>>

\* One pass of the loop: hyp_nextop returns the request, the body handles
\* it, and the loop calls hyp_nextop with the result.
LoopPass(r) ==
    /\ loop_pos = "resumed"
    /\ r \in loop_body(draft.umode, hyp_nextop(draft.umode, loop_res, a_regs))
    /\ loop_res' = r
    /\ a_regs' = nextop_registers(draft.umode, r)
    /\ loop_pos' = "ecall"
    /\ UNCHANGED <<baseVars, mapVars, taskVars, codecVars, draft, issued, received>>

\* The hypervisor drops the active task, which resets it, and activates it
\* again: U-mode restarts from its entry.
Restart ==
    /\ loop_pos \in {"trapped", "exited"}
    /\ received # <<>>
    /\ loop_pos' = "start"
    /\ loop_res' = OkUnit
    /\ a_regs' = StartRegs(draft.hyp)
    /\ issued' = <<>>
    /\ received' = <<>>
    /\ UNCHANGED <<baseVars, mapVars, taskVars, codecVars, draft>>

(***************************************************************************)
(* HypPageAlloc: the allocator of the hypervisor's pages at boot.          *)
(***************************************************************************)
\* PageInfo::is_free: a RAM page that nobody owns.
is_free(info) == info.mem_type = "Ram" /\ info.owners = <<>>

\* PageMap::build_from: one PageInfo per page from the first page of the
\* memory map on, free RAM or reserved.  kinds[i] tells which for the i-th
\* page.
build_from(first_page, kinds) ==
    [a \in first_page..(first_page + Len(kinds) - 1) |->
        PageInfo(kinds[a - first_page + 1], <<>>)]

\* PageMap::get(a).is_some()
in_map(page_map, a) == a \in DOMAIN page_map

\* The first page past the end of the map.
map_end(page_map) ==
    CHOOSE e \in {a + 1 : a \in DOMAIN page_map} : e \notin DOMAIN page_map

\* PageMap::iter_from(from).unwrap().find(|p| p.page.is_free()): `none' when
\* from is not in the map or no free page follows, where the code unwraps.
NoSuchPage == -1

find_free(page_map, from) ==
    LET found == {a \in DOMAIN page_map : a >= from /\ is_free(page_map[a])}
    IN IF ~in_map(page_map, from) \/ found = {}
       THEN NoSuchPage
       ELSE CHOOSE a \in found : \A b \in found : a <= b

\* PageMap::num_after: the number of pages of the map from addr on.
num_after(page_map, addr) == Cardinality({a \in DOMAIN page_map : a >= addr})

\* What an allocator call returns: the pages handed out and the allocator
\* as the call leaves it, or a panic.
Taken(base, count, alloc) == [kind |-> "ok", base |-> base, count |-> count, alloc |-> alloc]

AllocPanic(alloc) == [kind |-> "panic", base |-> NoSuchPage, count |-> 0, alloc |-> alloc]

\* HypPageAlloc::new
HypPageAlloc_new(first_page, kinds) ==
    LET page_map == build_from(first_page, kinds)
        first_avail_page == find_free(page_map, first_page)
    IN IF first_avail_page = NoSuchPage
       THEN AllocPanic([next_page |-> first_page, pages |-> page_map])
       ELSE Taken(first_avail_page, 0, [next_page |-> first_avail_page, pages |-> page_map])

\* A pages_remaining that reports half of the pages from the cursor on.
pages_remaining_halved(alloc) == num_after(alloc.pages, alloc.next_page) \div 2

\* HypPageAlloc::pages_remaining
pages_remaining(alloc) == num_after(alloc.pages, alloc.next_page)

\* A faulty next_page that returns the page at the cursor without making
\* the hypervisor its owner.
next_page_without_owner(alloc) ==
    LET next == find_free(alloc.pages, alloc.next_page)
    IN IF next = NoSuchPage
       THEN AllocPanic(alloc)
       ELSE Taken(alloc.next_page, 1, [next_page |-> next, pages |-> alloc.pages])

\* A faulty next_page that moves the cursor to the first free page after
\* the one that follows the page it returns.
next_page_skipping_a_page(alloc) ==
    LET pushed == push_owner(alloc.pages[alloc.next_page], HypervisorId)
        page_map == [alloc.pages EXCEPT ![alloc.next_page] = pushed[1]]
        next == find_free(page_map, alloc.next_page + 2)
    IN IF next = NoSuchPage
       THEN AllocPanic(alloc)
       ELSE Taken(alloc.next_page, 1, [next_page |-> next, pages |-> page_map])

\* HypPageAlloc::next_page
HypPageAlloc_next_page(alloc) ==
    IF ~in_map(alloc.pages, alloc.next_page)
    THEN AllocPanic(alloc)
    ELSE LET pushed == push_owner(alloc.pages[alloc.next_page], HypervisorId)
             page_map == [alloc.pages EXCEPT ![alloc.next_page] = pushed[1]]
             next == find_free(page_map, alloc.next_page)
         IN IF pushed[2].kind # "ok" \/ next = NoSuchPage
            THEN AllocPanic(alloc)
            ELSE Taken(alloc.next_page, 1, [next_page |-> next, pages |-> page_map])

\* The closure range_is_free_and_aligned of take_pages_with_alignment.
\* Addresses are counted in pages: align is in pages too.
range_is_free_and_aligned(page_map, start, count, align) ==
    /\ start % align = 0
    /\ \A a \in start..(start + count - 1) : in_map(page_map, a) /\ is_free(page_map[a])

\* The free pages from the cursor up to last_page become the hypervisor's.
mark_taken(alloc, last_page) ==
    [a \in DOMAIN alloc.pages |->
        IF a >= alloc.next_page /\ a < last_page /\ is_free(alloc.pages[a])
        THEN push_owner(alloc.pages[a], HypervisorId)[1]
        ELSE alloc.pages[a]]

\* A faulty take that pays no attention to the alignment.
take_pages_unaligned(alloc, count, align) ==
    LET fits == {p \in DOMAIN alloc.pages :
                   p >= alloc.next_page /\ range_is_free_and_aligned(alloc.pages, p, count, 1)}
        first_page == CHOOSE p \in fits : \A q \in fits : p <= q
        page_map == mark_taken(alloc, first_page + count)
        next == find_free(page_map, first_page + count)
    IN IF fits = {} \/ next = NoSuchPage
       THEN AllocPanic(alloc)
       ELSE Taken(first_page, count, [next_page |-> next, pages |-> page_map])

\* A faulty take that leaves the free pages it skips as they were.
take_pages_leaving_skipped(alloc, count, align) ==
    LET fits == {p \in DOMAIN alloc.pages :
                   p >= alloc.next_page /\ range_is_free_and_aligned(alloc.pages, p, count, align)}
        first_page == CHOOSE p \in fits : \A q \in fits : p <= q
        page_map == mark_taken([alloc EXCEPT !.next_page = first_page], first_page + count)
        next == find_free(page_map, first_page + count)
    IN IF fits = {} \/ next = NoSuchPage
       THEN AllocPanic(alloc)
       ELSE Taken(first_page, count, [next_page |-> next, pages |-> page_map])

\* HypPageAlloc::take_pages_with_alignment
take_pages_with_alignment(alloc, count, align) ==
    LET fits == {p \in DOMAIN alloc.pages :
                   p >= alloc.next_page /\ range_is_free_and_aligned(alloc.pages, p, count, align)}
        first_page == CHOOSE p \in fits : \A q \in fits : p <= q
        last_page == first_page + count
        page_map == mark_taken(alloc, last_page)
        next == find_free(page_map, last_page)
    IN IF ~in_map(alloc.pages, alloc.next_page) \/ fits = {} \/ next = NoSuchPage
       THEN AllocPanic(alloc)
       ELSE Taken(first_page, count, [next_page |-> next, pages |-> page_map])

\* HypPageAlloc::take_pages: no alignment beyond the page.
HypPageAlloc_take_pages(alloc, count) == take_pages_with_alignment(alloc, count, 1)

\* A pass of drain that leaves the map after the first run of free pages.
drain_pass_leaving_the_map(alloc) ==
    LET stops == {a \in alloc.next_page..map_end(alloc.pages) :
                    ~in_map(alloc.pages, a) \/ ~is_free(alloc.pages[a])}
        last_page == CHOOSE a \in stops : \A b \in stops : a <= b
        page_map == [a \in DOMAIN alloc.pages |->
                       IF a >= alloc.next_page /\ a < last_page
                       THEN push_owner(alloc.pages[a], HypervisorId)[1]
                       ELSE alloc.pages[a]]
    IN [panic |-> FALSE,
        range |-> [base |-> alloc.next_page, count |-> last_page - alloc.next_page],
        alloc |-> [next_page |-> map_end(alloc.pages), pages |-> page_map]]

\* One pass of the loop of drain: the range from the cursor to the first
\* page that is not free or not in the map is taken and the cursor moves
\* to the next free page, or out of the map.
drain_pass(alloc) ==
    LET stops == {a \in alloc.next_page..map_end(alloc.pages) :
                    ~in_map(alloc.pages, a) \/ ~is_free(alloc.pages[a])}
        last_page == CHOOSE a \in stops : \A b \in stops : a <= b
        page_map == [a \in DOMAIN alloc.pages |->
                       IF a >= alloc.next_page /\ a < last_page
                       THEN push_owner(alloc.pages[a], HypervisorId)[1]
                       ELSE alloc.pages[a]]
        pushes == {push_owner(alloc.pages[a], HypervisorId)[2].kind :
                     a \in {b \in DOMAIN alloc.pages : b >= alloc.next_page /\ b < last_page}}
        starts == {a \in last_page..map_end(alloc.pages) :
                     ~in_map(alloc.pages, a) \/ is_free(page_map[a])}
        next == CHOOSE a \in starts : \A b \in starts : a <= b
    IN [panic |-> pushes \ {"ok"} # {},
        range |-> [base |-> alloc.next_page, count |-> last_page - alloc.next_page],
        alloc |-> [next_page |-> next, pages |-> page_map]]

\* HypPageAlloc::drain: the loop runs while the cursor is in the map; passes
\* counts down the passes a map of this size can need.
RECURSIVE drain_loop(_, _, _)
drain_loop(alloc, ranges, passes) ==
    IF ~in_map(alloc.pages, alloc.next_page)
    THEN [kind |-> "ok", ranges |-> ranges, pages |-> alloc.pages]
    ELSE IF passes = 0
    THEN [kind |-> "diverged", ranges |-> ranges, pages |-> alloc.pages]
    ELSE LET pass == drain_pass(alloc)
         IN IF pass.panic
            THEN [kind |-> "panic", ranges |-> ranges, pages |-> alloc.pages]
            ELSE drain_loop(pass.alloc, Append(ranges, pass.range), passes - 1)

drain(alloc) == drain_loop(alloc, <<>>, Cardinality(DOMAIN alloc.pages))

\* The memory maps: MapPages pages, free RAM or reserved, the first at page
\* 0 or at page 1.
MemMaps == [first_page : {0, 1}, kinds : [1..MapPages -> {"Ram", "Reserved"}]]

\* The counts and the alignments the hypervisor asks for, in pages.
TakeCounts == 1..MaxTake

Alignments == {1, 2, 4}

NoAlloc == [next_page |-> NoSuchPage, pages |-> <<>>]

AllocIdle ==
    /\ page_alloc = NoAlloc
    /\ alloc_state = "off"
    /\ taken = {}
    /\ host_ranges = <<>>

\* HypPageAlloc::new on a memory map.
AllocInit ==
    \E m \in MemMaps :
        LET made == HypPageAlloc_new(m.first_page, m.kinds)
        IN /\ page_alloc = made.alloc
           /\ alloc_state = IF made.kind = "ok" THEN "ready" ELSE "panic"
           /\ taken = {}
           /\ host_ranges = <<>>

\* What a call that returned pages, or panicked, leaves.
AllocReturn(out) ==
    /\ page_alloc' = out.alloc
    /\ alloc_state' = IF out.kind = "ok" THEN "ready" ELSE "panic"
    /\ taken' = IF out.kind = "ok"
                THEN taken \cup (out.base..(out.base + out.count - 1))
                ELSE taken
    /\ UNCHANGED <<trackerVars, concVars, resetVars, umodeVars, slotVars, restVars, host_ranges>>

\* The hypervisor calls next_page(), also as next() of the iterator.
CallNextPage ==
    /\ alloc_state = "ready"
    /\ AllocReturn(HypPageAlloc_next_page(page_alloc))

\* The hypervisor calls take_pages(count).
CallTakePages(count) ==
    /\ alloc_state = "ready"
    /\ AllocReturn(HypPageAlloc_take_pages(page_alloc, count))

\* The hypervisor calls take_pages_with_alignment(count, align).
CallTakePagesWithAlignment(count, align) ==
    /\ alloc_state = "ready"
    /\ align > 1
    /\ AllocReturn(take_pages_with_alignment(page_alloc, count, align))

\* The hypervisor calls drain(), which consumes the allocator.
CallDrain ==
    /\ alloc_state = "ready"
    /\ LET out == drain(page_alloc)
       IN /\ alloc_state' = IF out.kind = "ok" THEN "drained" ELSE out.kind
          /\ page_alloc' = [page_alloc EXCEPT !.pages = out.pages]
          /\ host_ranges' = out.ranges
    /\ UNCHANGED <<trackerVars, concVars, resetVars, umodeVars, slotVars, restVars, taken>>

(***************************************************************************)
(* The U-mode mapping slots of a hypervisor page table.  Virtual addresses *)
(* are counted in pages from UMODE_VA_START.                               *)
(***************************************************************************)
UMODE_MAPPING_SLOTS == 2

\* The U-mode binary area, here as large as one slot, ends at this page.
UMODE_VA_END == SlotPages

UMODE_MAPPINGS_START == UMODE_VA_END + SlotPages

UMODE_MAPPINGS_SIZE == UMODE_MAPPING_SLOTS * SlotPages

\* The virtual pages of the model: the areas above and one more window.
SlotVas == 0..(UMODE_MAPPINGS_START + UMODE_MAPPINGS_SIZE + SlotPages - 1)

\* The levels of an Sv48 table below its root.
PteLevels == 3

RECURSIVE pow(_, _)
pow(b, e) == IF e = 0 THEN 1 ELSE b * pow(b, e - 1)

\* The pages one table of a level spans: a leaf table is of level 1.
TableSpan(level) == pow(PteEntries, level)

\* The tables below the root that the walks to count pages from vaddr pass.
TablesFor(vaddr, count) ==
    {<<l, a \div TableSpan(l)>> : l \in 1..PteLevels, a \in vaddr..(vaddr + count - 1)}

\* Sv48::max_pte_pages: the most tables below the root that count pages in
\* a row can need, wherever they start.
RECURSIVE max_pte_pages_from(_, _)
max_pte_pages_from(count, level) ==
    IF level > PteLevels
    THEN 0
    ELSE ((count + TableSpan(level) - 2) \div TableSpan(level)) + 1
             + max_pte_pages_from(count, level + 1)

max_pte_pages(count) == IF count = 0 THEN 0 ELSE max_pte_pages_from(count, 1)

NoLeaf == [valid |-> FALSE, paddr |-> "none", perms |-> "none"]

Leaf(paddr, perms) == [valid |-> TRUE, paddr |-> paddr, perms |-> perms]

\* What map_range returns: the table and the pool as it leaves them, and
\* on success the range the mapper is bound to.
\* FirstStagePageTable::map_range: walks to every page of the range and
\* fills in the missing tables with pages from get_pte_page; it fails when
\* get_pte_page has no page left.
map_range(table, pool, vaddr, count) ==
    LET needed == TablesFor(vaddr, count) \ table.pte_tables
        first(t) == max(vaddr, t[2] * TableSpan(t[1]))
        rank(t) == Cardinality({u \in needed :
                       first(u) < first(t) \/ (first(u) = first(t) /\ u[1] > t[1])})
    IN IF Cardinality(needed) <= pool
       THEN [kind |-> "ok",
             table |-> [table EXCEPT !.pte_tables = @ \cup needed],
             pool |-> pool - Cardinality(needed)]
       ELSE [kind |-> "err",
             table |-> [table EXCEPT !.pte_tables = @ \cup {t \in needed : rank(t) < pool}],
             pool |-> 0]

\* FirstStageMapper::map_addr: installs or replaces the leaf entry of a
\* page of the mapper's range, and fails outside the range.
Mapper_map_addr(table, mapper, vaddr, paddr, perms) ==
    IF vaddr \in mapper.vaddr..(mapper.vaddr + mapper.num_pages - 1)
    THEN [kind |-> "ok", table |-> [table EXCEPT !.leaves[vaddr] = Leaf(paddr, perms)]]
    ELSE [kind |-> "err", table |-> table]

\* FirstStagePageTable::unmap_range: clears the leaf entries of the range
\* and returns the pages that were mapped, in the order of their virtual
\* addresses.  Whether it fails on a range with a page that is not mapped
\* is left open: strict says which.
unmap_range(table, vaddr, count, strict) ==
    LET range == vaddr..(vaddr + count - 1)
        entries == [i \in 1..count |-> table.leaves[vaddr + i - 1]]
        IsValid(e) == e.valid
        mapped == SelectSeq(entries, IsValid)
    IN IF ~(TablesFor(vaddr, count) \subseteq table.pte_tables)
          \/ (strict /\ \E a \in range : ~table.leaves[a].valid)
       THEN [kind |-> "err", table |-> table, unmapped |-> <<>>]
       ELSE [kind |-> "ok",
             table |-> [table EXCEPT !.leaves = [a \in SlotVas |->
                                                   IF a \in range THEN NoLeaf ELSE @[a]]],
             unmapped |-> [i \in 1..Len(mapped) |-> mapped[i].paddr]]

NoMapper == [vaddr |-> 0, num_pages |-> 0, perms |-> "none"]

\* What a call on the slots returns.
SlotOk(table, mapper, unmapped) ==
    [kind |-> "ok", err |-> "", table |-> table, mapper |-> mapper, unmapped |-> unmapped]

SlotErr(table, e) ==
    [kind |-> "err", err |-> e, table |-> table, mapper |-> NoMapper, unmapped |-> <<>>]

\* HypPageTable::umode_slot_va
umode_slot_va(slot) ==
    IF slot < UMODE_MAPPING_SLOTS
    THEN [kind |-> "ok", va |-> UMODE_MAPPINGS_START + slot * SlotPages]
    ELSE [kind |-> "err", va |-> 0]

\* A umode_slot_mapper whose check of num_pages lets one page more pass.
umode_slot_mapper_one_more(table, slot, num_pages, writable) ==
    IF num_pages > SlotPages + 1
    THEN SlotErr(table, "OutOfMap")
    ELSE IF umode_slot_va(slot).kind = "err"
    THEN SlotErr(table, "InvalidSlot")
    ELSE LET vaddr == umode_slot_va(slot).va
             made == map_range(table.sv48, table.pte_pages, vaddr, num_pages)
             after == [sv48 |-> made.table, pte_pages |-> made.pool]
         IN IF made.kind = "err"
            THEN SlotErr(after, "MapperCreationFailed")
            ELSE SlotOk(after, [vaddr |-> vaddr, num_pages |-> num_pages,
                                perms |-> IF writable THEN "URW" ELSE "UR"], <<>>)

\* HypPageTable::umode_slot_mapper
umode_slot_mapper(table, slot, num_pages, writable) ==
    IF num_pages > SlotPages
    THEN SlotErr(table, "OutOfMap")
    ELSE IF umode_slot_va(slot).kind = "err"
    THEN SlotErr(table, "InvalidSlot")
    ELSE LET vaddr == umode_slot_va(slot).va
             made == map_range(table.sv48, table.pte_pages, vaddr, num_pages)
             after == [sv48 |-> made.table, pte_pages |-> made.pool]
         IN IF made.kind = "err"
            THEN SlotErr(after, "MapperCreationFailed")
            ELSE SlotOk(after, [vaddr |-> vaddr, num_pages |-> num_pages,
                                perms |-> IF writable THEN "URW" ELSE "UR"], <<>>)

\* UmodeSlotMapper::map_addr
UmodeSlotMapper_map_addr(table, mapper, vaddr, paddr) ==
    LET made == Mapper_map_addr(table.sv48, mapper, vaddr, paddr, mapper.perms)
    IN IF made.kind = "err"
       THEN SlotErr(table, "MapFailed")
       ELSE SlotOk([table EXCEPT !.sv48 = made.table], mapper, <<>>)

\* An unmap_umode_slot that clears the entries of the range and returns
\* the pages from the last to the first.
unmap_umode_slot_backwards(table, slot, num_pages, strict) ==
    IF umode_slot_va(slot).kind = "err"
    THEN SlotErr(table, "InvalidSlot")
    ELSE IF num_pages > SlotPages
    THEN SlotErr(table, "OutOfMap")
    ELSE LET made == unmap_range(table.sv48, umode_slot_va(slot).va, num_pages, strict)
         IN IF made.kind = "err"
            THEN SlotErr(table, "UnmapFailed")
            ELSE SlotOk([table EXCEPT !.sv48 = made.table], NoMapper,
                        [i \in 1..Len(made.unmapped) |->
                            made.unmapped[Len(made.unmapped) + 1 - i]])

\* HypPageTable::unmap_umode_slot
unmap_umode_slot(table, slot, num_pages, strict) ==
    IF umode_slot_va(slot).kind = "err"
    THEN SlotErr(table, "InvalidSlot")
    ELSE IF num_pages > SlotPages
    THEN SlotErr(table, "OutOfMap")
    ELSE LET made == unmap_range(table.sv48, umode_slot_va(slot).va, num_pages, strict)
         IN IF made.kind = "err"
            THEN SlotErr(table, "UnmapFailed")
            ELSE SlotOk([table EXCEPT !.sv48 = made.table], NoMapper, made.unmapped)

\* A page table whose pool of PTE pages holds one page.
page_table_with_one_pte_page(elf_pages) ==
    [sv48 |-> [pte_tables |-> TablesFor(0, elf_pages),
               leaves |-> [a \in SlotVas |-> IF a < elf_pages THEN Leaf("elf", "URW")
                                                               ELSE NoLeaf]],
     pte_pages |-> 1]

\* HypMap::new_page_table, as far as the slots see it: the pages of the
\* U-mode binary are mapped with their tables, and the pool of PTE pages
\* for the slots is taken from the allocator.
HypPageTable_new(elf_pages) ==
    [sv48 |-> [pte_tables |-> TablesFor(0, elf_pages),
               leaves |-> [a \in SlotVas |-> IF a < elf_pages THEN Leaf("elf", "URW")
                                                               ELSE NoLeaf]],
     pte_pages |-> max_pte_pages(UMODE_MAPPINGS_SIZE)]

\* The pages a guest has shared with the hypervisor.
GuestPages == {"p0", "p1"}

\* The slots and the page counts the hypervisor asks for.
SlotNumbers == 0..UMODE_MAPPING_SLOTS

SlotCounts == 0..(SlotPages + 1)

\* The addresses the hypervisor maps at: the pages of the slots, a page of
\* the U-mode binary and the page after the last slot.
MapVas ==
    (UMODE_MAPPINGS_START..(UMODE_MAPPINGS_START + UMODE_MAPPINGS_SIZE)) \cup {0}

\* The pages of the U-mode binary, mapped from the start of its area.
ElfPages == {1}

NoTable == [sv48 |-> [pte_tables |-> {}, leaves |-> <<>>], pte_pages |-> 0]

SlotIdle ==
    /\ hyp_table = NoTable
    /\ slot_mapper = NoMapper
    /\ slot_out = <<>>

\* HypMap::new_page_table for a U-mode binary of some pages.
SlotInit ==
    /\ \E elf_pages \in ElfPages : hyp_table = HypPageTable_new(elf_pages)
    /\ slot_mapper = NoMapper
    /\ slot_out = <<>>

\* A call returns: a call that fails leaves nothing with the hypervisor.
SlotReturn(out) ==
    /\ hyp_table' = out.table
    /\ UNCHANGED <<trackerVars, concVars, resetVars, umodeVars, allocVars, restVars>>

\* The hypervisor asks for a mapper of a slot.
CallSlotMapper(slot, num_pages, writable) ==
    LET out == umode_slot_mapper(hyp_table, slot, num_pages, writable)
    IN /\ hyp_table # NoTable
       /\ slot_mapper' = IF out.kind = "ok" THEN out.mapper ELSE slot_mapper
       /\ UNCHANGED slot_out
       /\ SlotReturn(out)

\* The hypervisor maps a guest page through the mapper it holds.  The page
\* is one the guest has shared and that is mapped in no slot, which is what
\* the caller of map_addr guarantees.
CallMapAddr(vaddr, paddr) ==
    LET out == UmodeSlotMapper_map_addr(hyp_table, slot_mapper, vaddr, paddr)
    IN /\ hyp_table # NoTable
       /\ slot_mapper # NoMapper
       /\ \A a \in SlotVas : hyp_table.sv48.leaves[a].paddr # paddr
       /\ UNCHANGED <<slot_mapper, slot_out>>
       /\ SlotReturn(out)

\* The hypervisor unmaps pages of a slot and keeps the pages it got back.
CallUnmapSlot(slot, num_pages, strict) ==
    LET out == unmap_umode_slot(hyp_table, slot, num_pages, strict)
    IN /\ hyp_table # NoTable
       /\ slot_out' = IF out.kind = "ok" THEN out.unmapped ELSE slot_out
       /\ UNCHANGED slot_mapper
       /\ SlotReturn(out)

(***************************************************************************)
(* VmPages and GuestRootBuilder (vm_pages.rs).  The second-stage page      *)
(* table T: PlatformPageTable of a VM is kept as the set of the pages it   *)
(* maps, the guest address of a page being its physical page number.       *)
(***************************************************************************)
\* T::TOP_LEVEL_ALIGN, in pages: the 16k of a Sv48x4 root.
TOP_LEVEL_ALIGN == 4

\* The pages create_guest_root_builder takes: four for the root, one for
\* the PTE page vector, one for the guest's state.
GuestRootPages == 6

VmPageAddrs == 0..(VmMapPages - 1)

NoRoot == [kind |-> "none", parent |-> NoId, mapped |-> {}]
Root(kind, parent, mapped) == [kind |-> kind, parent |-> parent, mapped |-> mapped]

\* What invalidate_range and unmap_range give: an error, or the pages of
\* the range in order.
Unmapped(ok, yielded) == [ok |-> ok, yielded |-> yielded]

\* PlatformPageTable::invalidate_range and unmap_range on the table of
\* `id': the whole range has to be mapped there.
invalidate_range(roots, id, from, count) ==
    IF \A a \in from..(from + count - 1) : a \in roots[id].mapped
    THEN Unmapped(TRUE, [i \in 1..count |-> from + i - 1])
    ELSE Unmapped(FALSE, <<>>)

\* The table of `id' once the pages have been taken out of it.
without_range(roots, id, unmapped) ==
    [roots EXCEPT ![id].mapped = @ \ {unmapped.yielded[i] : i \in DOMAIN unmapped.yielded}]

\* for page in pages { set_page_owner(page.addr(), id)? }: the tracker and
\* the first error, if any.
RECURSIVE set_owner_of_each(_, _, _, _)
set_owner_of_each(st, yielded, id, i) ==
    IF i > Len(yielded) THEN Outcome(st, Ok(NoId))
    ELSE LET r == set_page_owner(st, yielded[i], id)
         IN IF r.res.kind # "ok" THEN r
            ELSE set_owner_of_each(r.st, yielded, id, i + 1)

\* VmPages::create_guest_root_builder; unmapped is what
\* invalidate_range(from_addr, 6) gives.  The closure unwraps set_page_owner.
create_guest_root_builder(st, from, unmapped) ==
    IF from % TOP_LEVEL_ALIGN # 0 THEN Outcome(st, Err("UnalignedVmPages"))
    ELSE LET added == add_active_guest(st)
         IN IF added.res.kind # "ok" THEN Outcome(added.st, Err("GuestId"))
            ELSE IF ~unmapped.ok THEN Outcome(added.st, Err("Paging"))
            ELSE LET owned == set_owner_of_each(added.st, unmapped.yielded, added.res.id, 1)
                 IN IF owned.res.kind # "ok" THEN Outcome(owned.st, Panic)
                    ELSE Outcome(owned.st, Ok(added.res.id))

\* VmPages::add_pte_pages_builder; unmapped is what
\* invalidate_range(from_addr, count) gives.
add_pte_pages_builder(st, to, unmapped) ==
    IF ~unmapped.ok THEN Outcome(st, Err("Paging"))
    ELSE LET owned == set_owner_of_each(st, unmapped.yielded, to, 1)
         IN IF owned.res.kind # "ok" THEN Outcome(owned.st, Err("SettingOwner"))
            ELSE owned

\* VmPages::add_4k_pages_builder; unmapped is what
\* invalidate_range(from_addr, count) gives and enough says whether the
\* builder's PTE pages cover the mappings: if not, add_data_page and
\* add_zero_page fail on the first page, whose owner has been set.
add_4k_pages_builder(st, to, unmapped, enough) ==
    IF ~unmapped.ok THEN Outcome(st, Err("Paging"))
    ELSE LET given == IF enough THEN unmapped.yielded
                      ELSE SubSeq(unmapped.yielded, 1, 1)
             owned == set_owner_of_each(st, given, to, 1)
         IN IF owned.res.kind # "ok" THEN Outcome(owned.st, Err("SettingOwner"))
            ELSE IF ~enough /\ Len(given) > 0 THEN Outcome(owned.st, Err("Paging"))
            ELSE owned

\* The loop of remove_4k_pages: pop_owner, then the comparison with the
\* caller's id.
RECURSIVE pop_each(_, _, _, _)
pop_each(st, yielded, owner_id, i) ==
    IF i > Len(yielded) THEN Outcome(st, Ok(NoId))
    ELSE LET r == tracker_pop_owner(st, yielded[i])
         IN IF r.res = Panic THEN r
            ELSE IF r.res.kind # "ok" THEN Outcome(r.st, Err("UnownedPage"))
            ELSE IF r.res.id # owner_id THEN Outcome(r.st, Err("UnownedPage"))
            ELSE pop_each(r.st, yielded, owner_id, i + 1)

\* VmPages::remove_4k_pages; unmapped is what unmap_range(from_addr, count)
\* gives.
remove_4k_pages(st, owner_id, unmapped) ==
    IF ~unmapped.ok THEN Outcome(st, Err("Paging"))
    ELSE pop_each(st, unmapped.yielded, owner_id, 1)

\* The inputs of the calls.
CreateFroms == {0, 2, 8, 16, 24}
DonateFroms == {8, 16, 24}
DonateCounts == {GuestRootPages}
RemoveCounts == {GuestRootPages}
PteFroms == {8}

VmIdle == vm_roots = <<>>


\* HostRootBuilder::from_hyp_mem, add_pages and create_host: drain() has
\* left every page with the hypervisor, add_pages sets the owner of each
\* to the host and maps it in the host's table.
VmInit ==
    /\ vm_roots = [id \in 0..(VmMaxOwnerId - 1) |->
                     IF id = HostId THEN Root("vm", NoId, VmPageAddrs) ELSE NoRoot]
    /\ next_owner_id = FirstGuestId
    /\ active_guests = <<HostId>>
    /\ pages = [a \in VmPageAddrs |->
                  inner_set_page_owner([b \in {a} |-> PageInfo("Ram", <<HypervisorId>>)],
                                       <<HostId>>, a, HostId)[1][a]]
    /\ panicked = FALSE
    /\ assigned = {}

\* A VmPages that has not been dropped.
IsVm(id) == vm_roots # <<>> /\ vm_roots[id].kind = "vm"

\* A GuestRootBuilder that `caller' holds.
IsBuilderOf(caller, to) ==
    vm_roots # <<>> /\ vm_roots[to].kind = "builder" /\ vm_roots[to].parent = caller

VmReturn(out) ==
    /\ Becomes(out)
    /\ assigned' = IF Len(out.st.active) > Len(active_guests)
                   THEN assigned \cup {next_owner_id} ELSE assigned
    /\ UNCHANGED <<umodeVars, allocVars, slotVars, lateVars, concVars, resetVars>>

CallCreateGuestRootBuilder(caller, from) ==
    LET unmapped == invalidate_range(vm_roots, caller, from, GuestRootPages)
        out == create_guest_root_builder(Cur, from, unmapped)
    IN /\ Running
       /\ IsVm(caller)
       /\ vm_roots' = IF out.res.kind = "ok"
                      THEN [without_range(vm_roots, caller, unmapped)
                               EXCEPT ![out.res.id] = Root("builder", caller, {})]
                      ELSE IF out.res = Panic THEN without_range(vm_roots, caller, unmapped)
                      ELSE vm_roots
       /\ VmReturn(out)

CallAddPtePagesBuilder(caller, from, count, to) ==
    LET unmapped == invalidate_range(vm_roots, caller, from, count)
        out == add_pte_pages_builder(Cur, to, unmapped)
    IN /\ Running
       /\ IsVm(caller)
       /\ IsBuilderOf(caller, to)
       /\ vm_roots' = IF unmapped.ok THEN without_range(vm_roots, caller, unmapped)
                      ELSE vm_roots
       /\ VmReturn(out)

CallAdd4kPagesBuilder(caller, from, count, to, enough) ==
    LET unmapped == invalidate_range(vm_roots, caller, from, count)
        out == add_4k_pages_builder(Cur, to, unmapped, enough)
        left == IF unmapped.ok THEN without_range(vm_roots, caller, unmapped)
                ELSE vm_roots
    IN /\ Running
       /\ IsVm(caller)
       /\ IsBuilderOf(caller, to)
       /\ vm_roots' = IF out.res.kind = "ok"
                      THEN [left EXCEPT ![to].mapped = @ \cup (from..(from + count - 1))]
                      ELSE left
       /\ VmReturn(out)

\* GuestRootBuilder::create_pages
CallCreatePages(to) ==
    /\ Running
    /\ vm_roots # <<>>
    /\ vm_roots[to].kind = "builder"
    /\ vm_roots' = [vm_roots EXCEPT ![to].kind = "vm"]
    /\ UNCHANGED <<trackerVars, umodeVars, allocVars, slotVars, lateVars, concVars, resetVars>>

CallRemove4kPages(caller, from, count) ==
    LET unmapped == invalidate_range(vm_roots, caller, from, count)
        out == remove_4k_pages(Cur, caller, unmapped)
    IN /\ Running
       /\ IsVm(caller)
       /\ vm_roots' = IF unmapped.ok THEN without_range(vm_roots, caller, unmapped)
                      ELSE vm_roots
       /\ VmReturn(out)

\* Drop for VmPages: a guest's VmPages goes away; the host's never does.
DropVmPages(id) ==
    /\ Running
    /\ IsVm(id)
    /\ id # HostId
    /\ vm_roots' = [vm_roots EXCEPT ![id].kind = "gone"]
    /\ VmReturn(rm_active_guest(Cur, id))

(***************************************************************************)
(* HypMap::init on the segments of a U-mode ELF.                           *)
(***************************************************************************)
NoHypMap == [set |-> FALSE, regions |-> <<>>]

\* The segments ElfSegment::new lets through: vaddr + size does not
\* overflow.
ElfSegmentInputs ==
    {seg \in [vaddr : Va, size : Lens, perms : ElfSegmentPerms, data : {NoData}] :
        seg.vaddr + seg.size <= VaTop}

\* The segments that follow the first one in the ELFs of the model: a good
\* one, one off the page boundary and one outside the U-mode area.
SecondSegments ==
    {seg \in ElfSegmentInputs :
        /\ seg.perms = "ReadOnly"
        /\ seg.size = 1
        /\ seg.vaddr \in {UMODE_VA_START + PageBytes, UMODE_VA_START + 1,
                          UMODE_VA_START + UMODE_VA_SIZE}}

ElfInputs == {<<a, b>> : a \in ElfSegmentInputs, b \in SecondSegments}

ElfIdle ==
    /\ umode_elf = <<>>
    /\ hypmap = NoHypMap
    /\ hypmap_ret = "none"

ElfInit ==
    /\ umode_elf \in ElfInputs
    /\ hypmap = NoHypMap
    /\ hypmap_ret = "none"

\* HypMap::init(mem_map, umode_elf), with HYPMAP.call_once on success.
CallHypMapInit ==
    LET out == HypMap_init(umode_elf)
    IN /\ umode_elf # <<>>
       /\ hypmap_ret = "none"
       /\ hypmap' = IF out.kind = "ok" THEN [set |-> TRUE, regions |-> out.regions]
                    ELSE hypmap
       /\ hypmap_ret' = IF out.kind = "ok" THEN "ok" ELSE out.err
       /\ UNCHANGED <<trackerVars, concVars, resetVars, umodeVars, allocVars, slotVars,
                      vm_roots, rangeVars, smpVars, umode_elf>>

(***************************************************************************)
(* UmodeMemoryRange::new and offset (umode_mem.rs).                        *)
(***************************************************************************)
NoRange == [addr |-> VaBottom, len |-> 0]

RangeRet(kind, range) == [kind |-> kind, range |-> range]

\* UmodeMemoryRange::new
UmodeMemoryRange_new(addr, len, overflow_checks) ==
    IF len = 0 THEN RangeRet("InvalidLength", NoRange)
    ELSE LET valid == is_valid_umode_range(addr, len, overflow_checks)
         IN IF valid = "panic" THEN RangeRet("panic", NoRange)
            ELSE IF valid = "false" THEN RangeRet("InvalidAddress", NoRange)
            ELSE RangeRet("ok", UmodeMemoryRange(addr, len))

\* UmodeMemoryRange::offset, with its check of off; addr + off overflows as
\* the sum in is_valid_umode_range does.
UmodeMemoryRange_offset(range, off, overflow_checks) ==
    IF off >= range.len THEN RangeRet("InvalidOffset", NoRange)
    ELSE IF range.addr + off > VaTop /\ overflow_checks THEN RangeRet("panic", NoRange)
    ELSE RangeRet("ok", UmodeMemoryRange(wrapping_va(offset(range, off).addr),
                                          offset(range, off).len))

NoCall == [op |-> "none", addr |-> VaBottom, len |-> 0]

RangeIdle ==
    /\ um_range = NoRange
    /\ um_parent = NoRange
    /\ um_call = NoCall
    /\ um_ret = "none"

RangeReturn(out) ==
    /\ um_ret' = out.kind
    /\ UNCHANGED <<trackerVars, concVars, resetVars, umodeVars, allocVars, slotVars,
                   vm_roots, elfVars, smpVars>>

\* The hypervisor makes a range from an address and a length it was given.
CallRangeNew(addr, len, overflow_checks) ==
    LET out == UmodeMemoryRange_new(addr, len, overflow_checks)
    IN /\ um_ret # "panic"
       /\ um_call' = [op |-> "new", addr |-> addr, len |-> len]
       /\ um_range' = out.range
       /\ um_parent' = NoRange
       /\ RangeReturn(out)

\* The hypervisor takes the part of the range it holds from off on.
CallRangeOffset(off, overflow_checks) ==
    LET out == UmodeMemoryRange_offset(um_range, off, overflow_checks)
    IN /\ um_ret # "panic"
       /\ um_range # NoRange
       /\ um_call' = [op |-> "offset", addr |-> um_range.addr, len |-> off]
       /\ um_range' = IF out.kind = "ok" THEN out.range ELSE um_range
       /\ um_parent' = IF out.kind = "ok" THEN um_range ELSE um_parent
       /\ RangeReturn(out)

(***************************************************************************)
(* start_secondary_cpus (smp.rs) and the secondary CPUs it starts.         *)
(***************************************************************************)
CpuIds == 0..(NumCpus - 1)

\* The online flag of a PerCpu, a Once<bool>.
Once_new == [set |-> FALSE]

\* Once::call_once: the first call sets the cell, a later call changes
\* nothing.
Once_call_once(cell) == IF cell.set THEN cell ELSE [set |-> TRUE]

\* A faulty Once::wait that returns without looking at the cell.
wait_returning_at_once(cell) == TRUE

\* Once::wait: spins until the cell is set; TRUE when it returns.
Once_wait(cell) == cell.set

SmpIdle ==
    /\ smp_boot = NoId
    /\ smp_pc = "off"
    /\ smp_i = 0
    /\ smp_online = <<>>
    /\ smp_hart = <<>>
    /\ smp_started = <<>>

\* After PerCpu::init: every PerCpu has a new Once, the boot CPU has called
\* set_online and the other harts are stopped.
SmpInit ==
    /\ smp_boot \in CpuIds
    /\ smp_pc = "loop"
    /\ smp_i = 0
    /\ smp_online = [c \in CpuIds |-> IF c = smp_boot THEN Once_call_once(Once_new)
                                       ELSE Once_new]
    /\ smp_hart = [c \in CpuIds |-> IF c = smp_boot THEN "boot" ELSE "stopped"]
    /\ smp_started = <<>>

SmpStep ==
    UNCHANGED <<trackerVars, concVars, resetVars, umodeVars, allocVars, slotVars,
                vm_roots, elfVars, rangeVars, smp_boot>>

\* for i in 0..num_cpus(): if cpu_id == boot_cpu { continue; }
SkipBootCpu ==
    /\ smp_pc = "loop"
    /\ smp_i < NumCpus
    /\ smp_i = smp_boot
    /\ smp_i' = smp_i + 1
    /\ UNCHANGED <<smp_pc, smp_online, smp_hart, smp_started>>
    /\ SmpStep

\* state::hart_start(...).expect("Failed to start CPU {i}")
CallHartStart(ok) ==
    /\ smp_pc = "loop"
    /\ smp_i < NumCpus
    /\ smp_i # smp_boot
    /\ smp_started' = Append(smp_started, smp_i)
    /\ IF ok
       THEN /\ smp_hart' = [smp_hart EXCEPT ![smp_i] = "started"]
            /\ smp_pc' = "wait"
       ELSE /\ smp_pc' = "panic"
            /\ UNCHANGED smp_hart
    /\ UNCHANGED <<smp_i, smp_online>>
    /\ SmpStep

\* pcpu.online.wait() returns and the loop goes on.
OnlineWaitReturns ==
    /\ smp_pc = "wait"
    /\ Once_wait(smp_online[smp_i])
    /\ smp_pc' = "loop"
    /\ smp_i' = smp_i + 1
    /\ UNCHANGED <<smp_online, smp_hart, smp_started>>
    /\ SmpStep

\* The loop is over: println!("Brought online ...") and return.
StartSecondaryCpusReturns ==
    /\ smp_pc = "loop"
    /\ smp_i = NumCpus
    /\ smp_pc' = "done"
    /\ UNCHANGED <<smp_i, smp_online, smp_hart, smp_started>>
    /\ SmpStep

\* _secondary_start on the started hart: it stashes its PerCpu in TP.
SecondaryStart(c) ==
    /\ smp_hart[c] = "started"
    /\ smp_hart' = [smp_hart EXCEPT ![c] = "tp_set"]
    /\ UNCHANGED <<smp_pc, smp_i, smp_online, smp_started>>
    /\ SmpStep

\* secondary_init: PerCpu::this_cpu().set_online()
SecondarySetOnline(c) ==
    /\ smp_hart[c] = "tp_set"
    /\ smp_online' = [smp_online EXCEPT ![c] = Once_call_once(smp_online[c])]
    /\ smp_hart' = [smp_hart EXCEPT ![c] = "online"]
    /\ UNCHANGED <<smp_pc, smp_i, smp_started>>
    /\ SmpStep

\* The secondary CPU goes on to its own work.
SecondaryRuns(c) ==
    /\ smp_hart[c] = "online"
    /\ smp_hart' = [smp_hart EXCEPT ![c] = "running"]
    /\ UNCHANGED <<smp_pc, smp_i, smp_online, smp_started>>
    /\ SmpStep

LateIdle == ElfIdle /\ RangeIdle /\ SmpIdle

RestIdle == VmIdle /\ LateIdle

\* The boot-time components before the hypervisor has set them up.
BootIdle == AllocIdle /\ SlotIdle /\ RestIdle

\* The U-mode components before the hypervisor has set them up.
UmodeIdle == MapIdle /\ TaskIdle /\ LoopIdle /\ CodecIdle /\ BootIdle

(***************************************************************************)
(* Specifications.                                                         *)
(***************************************************************************)
\* The page tracker called by one CPU at a time.
Init == TrackerInit /\ ConcIdle /\ ResetIdle /\ UmodeIdle

Next ==
    \/ CallAddActiveGuest
    \/ \E id \in OwnerIds : CallRmActiveGuest(id)
    \/ \E a \in Addrs : \E id \in KnownIds : CallSetPageOwner(a, id)
    \/ \E a \in Addrs : CallPopOwner(a)

Spec == Init /\ [][Next]_vars

\* The page tracker called by several CPUs through clones of its handle.
ConcInit ==
    /\ TrackerInit
    /\ lock = NoCpu
    /\ handle = [c \in CPUs |-> IF c = "cpu0" THEN InnerRef ELSE NoHandle]
    /\ cpu = [c \in CPUs |-> IdleCpu]
    /\ calls = 0
    /\ serial = Cur
    /\ ResetIdle
    /\ UmodeIdle

ConcNext ==
    \/ \E c, d \in CPUs : CloneHandle(c, d)
    \/ \E c \in CPUs :
         \/ Invoke(c, "add_active_guest", NoId)
         \/ \E id \in 0..(next_owner_id - 1) : Invoke(c, "rm_active_guest", id)
         \/ \E id \in 0..(next_owner_id - 1) : Invoke(c, "set_page_owner", id)
         \/ Invoke(c, "pop_owner", NoId)
         \/ Invoke(c, "owner", NoId)
         \/ MutexLock(c)
         \/ AddRead(c)
         \/ AddIncrement(c)
         \/ AddPush(c)
         \/ RmRetain(c)
         \/ SetPrune(c)
         \/ SetPush(c)
         \/ PopOwner(c)
         \/ ReadOwner(c)
         \/ MutexUnlock(c)

ConcSpec == ConcInit /\ [][ConcNext]_vars

\* U-mode running on, and being reset over, one private region.
ResetSpecInit == TrackerInit /\ ConcIdle /\ ResetInit /\ UmodeIdle

ResetNext ==
    \/ Activate
    \/ \E off \in 1..round_up(MaxSize) : \E b \in UmodeBytes : UmodeStore(off, b)
    \/ RestoreUmode
    \/ ResetActiveTask

ResetSpec == ResetSpecInit /\ [][ResetNext]_vars

\* U-mode running on two CPUs, each on its own copy of the private regions.
MapSpecInit ==
    /\ TrackerInit /\ ConcIdle /\ ResetIdle /\ MapInit /\ TaskIdle /\ LoopIdle /\ CodecIdle
    /\ BootIdle

MapNext ==
    \E c \in CPUs :
        \/ EnterUmode(c)
        \/ \E va \in 0..(2 * round_up(MaxSize) - 1) : \E b \in UmodeBytes : StoreByte(c, va, b)
        \/ RestorePrivateRegions(c)
        \/ ResetAreas(c)

MapSpec == MapSpecInit /\ [][MapNext]_vars

\* The ELF of the task model: a writable segment with data on one page and
\* an executable one after it.
TaskElf ==
    <<ElfSegment(0, [size |-> 1, perms |-> "ReadWrite",
                     data |-> SomeData([i \in 1..MaxDataLen |-> 1])]),
      ElfSegment(round_up(1), [size |-> 1, perms |-> "ReadOnlyExecute",
                               data |-> SomeData([i \in 1..MaxDataLen |-> 1])])>>

\* The U-mode task of one CPU: activated, run, reset and dropped.
TaskSpecInit ==
    /\ TrackerInit /\ ConcIdle /\ ResetIdle
    /\ MapInitWith(TaskElf) /\ TaskInit
    /\ LoopIdle /\ CodecIdle /\ BootIdle

TaskNext ==
    \/ SetUmodeTask
    \/ UmodeTaskMut
    \/ ActivateTask
    \/ DropTaskRef
    \/ RunToExit
    \/ \E va \in 0..(PageBytes - 1) : \E b \in UmodeBytes :
         StoreByte(TaskCpu, va, b)
    \/ \E insns \in 0..MaxInsns : \E cause \in Causes : \E a0 \in 0..1 : \E a7 \in 0..3 :
         UmodeTrap(insns, cause, a0, a7)
    \/ ResetTask
    \/ DropActiveTask

TaskSpec == TaskSpecInit /\ [][TaskNext]_vars

\* Values passed through the registers by the encoders and decoders.
CodecSpecInit ==
    /\ TrackerInit /\ ConcIdle /\ ResetIdle
    /\ MapIdle /\ TaskIdle /\ LoopIdle /\ BootIdle
    /\ CodecInit

CodecNext ==
    \/ ToRegisters
    \/ TryFromRegisters
    \/ DecodeEcall
    \/ Memcopy

CodecSpec == CodecSpecInit /\ [][CodecNext]_vars

\* The request loop of a U-mode binary against a hypervisor.
LoopSpecInit ==
    /\ TrackerInit /\ ConcIdle /\ ResetIdle
    /\ MapIdle /\ TaskIdle /\ CodecIdle /\ BootIdle
    /\ LoopInit

LoopNext ==
    \/ \E r \in Results("u-mode-api") : EnterLoop(r)
    \/ NextOpTrap
    \/ ExitOnEcall
    \/ RunAgain
    \/ \E req \in UNION {NextRequests(u) : u \in UmodeDrafts} : ReturnNextRequest(req)
    \/ \E r \in Results("u-mode-api") : LoopPass(r)
    \/ Restart

LoopSpec == LoopSpecInit /\ [][LoopNext]_vars

\* The boot allocator on every memory map.
AllocSpecInit ==
    /\ TrackerInit /\ ConcIdle /\ ResetIdle
    /\ MapIdle /\ TaskIdle /\ LoopIdle /\ CodecIdle
    /\ AllocInit /\ SlotIdle /\ RestIdle

AllocNext ==
    \/ CallNextPage
    \/ \E count \in TakeCounts : CallTakePages(count)
    \/ \E count \in TakeCounts, align \in Alignments : CallTakePagesWithAlignment(count, align)
    \/ CallDrain

AllocSpec == AllocSpecInit /\ [][AllocNext]_vars

\* The mapping slots of one page table.
SlotSpecInit ==
    /\ TrackerInit /\ ConcIdle /\ ResetIdle
    /\ MapIdle /\ TaskIdle /\ LoopIdle /\ CodecIdle
    /\ AllocIdle /\ RestIdle
    /\ SlotInit

SlotNext ==
    \/ \E slot \in SlotNumbers, num_pages \in SlotCounts, writable \in BOOLEAN :
          CallSlotMapper(slot, num_pages, writable)
    \/ \E vaddr \in MapVas, paddr \in GuestPages : CallMapAddr(vaddr, paddr)
    \/ \E slot \in SlotNumbers, num_pages \in SlotCounts, strict \in BOOLEAN :
          CallUnmapSlot(slot, num_pages, strict)

SlotSpec == SlotSpecInit /\ [][SlotNext]_vars

\* The host and its guests calling VmPages and GuestRootBuilder.
VmSpecInit ==
    /\ VmInit /\ ConcIdle /\ ResetIdle
    /\ MapIdle /\ TaskIdle /\ LoopIdle /\ CodecIdle
    /\ AllocIdle /\ SlotIdle /\ LateIdle

VmNext ==
    \/ \E caller \in OwnerIds, from \in CreateFroms :
          CallCreateGuestRootBuilder(caller, from)
    \/ \E caller, to \in OwnerIds, from \in PteFroms :
          CallAddPtePagesBuilder(caller, from, 1, to)
    \/ \E caller, to \in OwnerIds, from \in DonateFroms, count \in DonateCounts,
          enough \in BOOLEAN :
          CallAdd4kPagesBuilder(caller, from, count, to, enough)
    \/ \E to \in OwnerIds : CallCreatePages(to)
    \/ \E caller \in OwnerIds, from \in DonateFroms, count \in RemoveCounts :
          CallRemove4kPages(caller, from, count)
    \/ \E id \in OwnerIds : DropVmPages(id)

VmSpec == VmSpecInit /\ [][VmNext]_vars

\* HypMap::init on one of the ELFs of the model.
ElfSpecInit ==
    /\ TrackerInit /\ ConcIdle /\ ResetIdle
    /\ MapIdle /\ TaskIdle /\ LoopIdle /\ CodecIdle
    /\ AllocIdle /\ SlotIdle /\ VmIdle /\ RangeIdle /\ SmpIdle
    /\ ElfInit

ElfNext == CallHypMapInit

ElfSpec == ElfSpecInit /\ [][ElfNext]_vars

\* The hypervisor making U-mode memory ranges.
RangeSpecInit ==
    /\ TrackerInit /\ ConcIdle /\ ResetIdle
    /\ MapIdle /\ TaskIdle /\ LoopIdle /\ CodecIdle
    /\ AllocIdle /\ SlotIdle /\ VmIdle /\ ElfIdle /\ SmpIdle
    /\ RangeIdle

RangeNext ==
    \/ \E addr \in Va, len \in Lens, overflow_checks \in BOOLEAN :
          CallRangeNew(addr, len, overflow_checks)
    \/ \E off \in Lens, overflow_checks \in BOOLEAN : CallRangeOffset(off, overflow_checks)

RangeSpec == RangeSpecInit /\ [][RangeNext]_vars

\* The boot CPU in start_secondary_cpus and the harts it starts.
SmpSpecInit ==
    /\ TrackerInit /\ ConcIdle /\ ResetIdle
    /\ MapIdle /\ TaskIdle /\ LoopIdle /\ CodecIdle
    /\ AllocIdle /\ SlotIdle /\ VmIdle /\ ElfIdle /\ RangeIdle
    /\ SmpInit

SmpNext ==
    \/ SkipBootCpu
    \/ \E ok \in BOOLEAN : CallHartStart(ok)
    \/ OnlineWaitReturns
    \/ StartSecondaryCpusReturns
    \/ \E c \in CpuIds : SecondaryStart(c)
    \/ \E c \in CpuIds : SecondarySetOnline(c)
    \/ \E c \in CpuIds : SecondaryRuns(c)

SmpSpec == SmpSpecInit /\ [][SmpNext]_vars

(***************************************************************************)
(* Properties of the page tracker.                                         *)
(***************************************************************************)
Top(seq) == seq[Len(seq)]

Front(seq) == SubSeq(seq, 1, Len(seq) - 1)

IsActive(id) == contains(active_guests, id)

\* The positions of addr's owner stack that hold an active guest.
ActivePositions(addr) ==
    {i \in 1..Len(pages[addr].owners) : IsActive(pages[addr].owners[i])}

\* C1: owner(p) is the topmost entry of p's owner stack that is in the
\* active-guest set, skipping exited owners above it; an active top is
\* returned; none is returned only when no entry is active or p has no
\* PageInfo.
C1_OwnerIsTopmostActive ==
    \A a \in Addrs :
        IF a \notin DOMAIN pages THEN owner(a) = None
        ELSE LET o == pages[a].owners
                 act == ActivePositions(a)
             IN /\ (Len(o) > 0 /\ IsActive(Top(o))) => owner(a) = Some(Top(o))
                /\ (owner(a) = None) <=> (act = {})
                /\ act # {} =>
                     \E i \in act : /\ owner(a) = Some(o[i])
                                    /\ \A j \in (i + 1)..Len(o) : j \notin act

\* A guest that add_active_guest admitted has exited; it sits on top of an
\* active owner, and owner() reports the active one.
C1_Witness ==
    LET o == pages[RamAddr].owners
    IN /\ Len(o) >= 2
       /\ Top(o) \in assigned
       /\ ~IsActive(Top(o))
       /\ IsActive(o[Len(o) - 1])
       /\ owner(RamAddr) = Some(o[Len(o) - 1])

\* The stack of addr without the exited owners on its top: it ends at the
\* topmost active entry.
Pruned(addr) ==
    LET act == ActivePositions(addr)
    IN IF act = {} THEN <<>>
       ELSE SubSeq(pages[addr].owners, 1, CHOOSE i \in act : \A j \in act : j <= i)

\* The id on top of page a's owner stack.
TopOwner(a) == Top(pages[a].owners)

\* Page a is owned by a live guest, given to it by set_page_owner.
GivenToGuest(a) ==
    /\ Len(pages[a].owners) > 0
    /\ TopOwner(a) \in assigned
    /\ IsActive(TopOwner(a))

\* The guest page a was given to has exited and is still on top of its stack.
ExitedOnTop(a) ==
    /\ Len(pages[a].owners) > 0
    /\ TopOwner(a) \in assigned
    /\ ~IsActive(TopOwner(a))

\* The owner page a had before its top owner was pushed.
OwnerBefore(a) ==
    inner_owner([pages EXCEPT ![a].owners = Front(@)], active_guests, a)

\* What owner(a) returns in tracker state st.
OwnerIn(st, a) == tracker_owner(st, a).res

\* The tracker state rm_active_guest(id) leaves.
AfterRm(id) == rm_active_guest(Cur, id).st

IsReserved(a) == a \in DOMAIN pages /\ pages[a].mem_type = "Reserved"

\* C3: on a Reserved page set_page_owner, for every id, and pop_owner fail
\* with ReservedPage and leave the page's owner stack as it was.
C3_ReservedRejected ==
    \A a \in MappedAddrs :
       IsReserved(a) =>
          /\ \A id \in OwnerIds :
                LET out == set_page_owner(Cur, a, id)
                IN out.res = Err("ReservedPage") /\ out.st.pages[a] = pages[a]
          /\ LET out == tracker_pop_owner(Cur, a)
             IN out.res = Err("ReservedPage") /\ out.st.pages[a] = pages[a]

\* While a guest is live and owns the RAM page, set_page_owner for that
\* guest and pop_owner are refused on the reserved page.
C3_Witness ==
    /\ IsReserved(ReservedAddr)
    /\ GivenToGuest(RamAddr)
    /\ set_page_owner(Cur, ReservedAddr, TopOwner(RamAddr)).res = Err("ReservedPage")
    /\ tracker_pop_owner(Cur, ReservedAddr).res = Err("ReservedPage")
    /\ tracker_pop_owner(Cur, RamAddr).res.kind = "ok"

\* C4: rm_active_guest(id) changes only the active-guest set: in every
\* state and for every id it leaves every page's owner stack and
\* next_owner_id as they were.
C4_RmTouchesOnlyActiveSet ==
    \A id \in OwnerIds :
       /\ AfterRm(id).pages = pages
       /\ AfterRm(id).next = next_owner_id
       /\ \A g \in OwnerIds : contains(AfterRm(id).active, g) <=> (IsActive(g) /\ g # id)

\* The first guest has been removed from the active set, and it is still
\* the top entry of the page's owner stack.
C4_Witness ==
    /\ Len(pages[RamAddr].owners) >= 2
    /\ ExitedOnTop(RamAddr)
    /\ active_guests = <<HostId>>
    /\ next_owner_id = FirstGuestId + 1

\* C5: the host is a member of the active-guest set in every state.
C5_HostAlwaysActive == IsActive(HostId)

\* How many entries of a's owner stack in page map pm are the hypervisor.
HypervisorEntries(pm, a) ==
    Cardinality({i \in 1..Len(pm[a].owners) : pm[a].owners[i] = HypervisorId})

\* C6: the hypervisor counts as active: a page whose top owner is the
\* hypervisor reports the hypervisor, and set_page_owner's pruning never
\* pops a hypervisor entry.
C6_HypervisorImplicitlyActive ==
    [][ \A a \in MappedAddrs :
          /\ (Len(pages'[a].owners) > 0 /\ Top(pages'[a].owners) = HypervisorId)
                => owner(a)' = Some(HypervisorId)
          /\ \A id \in OwnerIds :
               CallSetPageOwner(a, id) =>
                  HypervisorEntries(pages', a) >= HypervisorEntries(pages, a)
      ]_vars

\* C7: the k-th successful add_active_guest returns id k+1, whatever calls
\* failed or removed guests in between, and adds that id to the active set.
C7_SequentialIds ==
    /\ assigned = FirstGuestId..(Cardinality(assigned) + 1)
    /\ LET out == add_active_guest(Cur)
       IN out.res.kind = "ok" =>
             /\ out.res.id = Cardinality(assigned) + FirstGuestId
             /\ contains(out.st.active, out.res.id)

\* C8: pop_owner returns the removed owner or one of OwnerUnderflow,
\* UnownedPage, ReservedPage for every address, never aborts, and popping
\* the sole owner fails with OwnerUnderflow and leaves the stack as it was.
C8_PopOwnerTotal ==
    /\ ~panicked
    /\ \A a \in MappedAddrs :
          LET out == tracker_pop_owner(Cur, a)
          IN /\ \/ out.res.kind = "ok" /\ out.res.id \in OwnerIds
                \/ out.res \in {Err("OwnerUnderflow"), Err("UnownedPage"),
                                Err("ReservedPage")}
             /\ (~IsReserved(a) /\ Len(pages[a].owners) = 1)
                  => out.res = Err("OwnerUnderflow") /\ out.st.pages = pages

(***************************************************************************)
(* Properties of the tracker shared by several CPUs.                       *)
(***************************************************************************)
Finished(c) == cpu[c].op # "none" /\ cpu[c].pc \in {"unlock", "idle"}

\* C9: the calls the CPUs make through the original handle and its clones
\* act on one state and are linearizable in the order they took the
\* mutex: every finished call returned what it returns when the calls run
\* one by one in that order, the shared state is the state those calls
\* leave whenever no call is inside its body, and add_active_guest calls
\* finished on different CPUs returned different ids.
C9_Linearizable ==
    /\ \A c \in CPUs : Finished(c) => cpu[c].res = cpu[c].want
    /\ (\A c \in CPUs : cpu[c].pc \in {"idle", "lock"}) => Cur = serial
    /\ \A c, d \in CPUs :
          (/\ c # d
           /\ Finished(c) /\ cpu[c].op = "add_active_guest" /\ cpu[c].res.kind = "ok"
           /\ Finished(d) /\ cpu[d].op = "add_active_guest" /\ cpu[d].res.kind = "ok")
             => cpu[c].res.id # cpu[d].res.id

\* A guest was added through the clone, and rm_active_guest through the
\* original has brought the active set back from two entries to one while
\* the clone's CPU waits for the mutex with its next call.
C9_Witness ==
    /\ handle["cpu1"] = InnerRef
    /\ cpu["cpu0"].op = "rm_active_guest"
    /\ cpu["cpu0"].id = FirstGuestId
    /\ cpu["cpu0"].pc = "unlock"
    /\ cpu["cpu0"].res = Ok(NoId)
    /\ cpu["cpu1"].op = "owner"
    /\ cpu["cpu1"].pc = "lock"
    /\ calls = 3
    /\ serial.next = FirstGuestId + 1
    /\ pages[ConcAddr].owners = <<HypervisorId>>
    /\ active_guests = <<HostId>>

(***************************************************************************)
(* Properties of the U-mode reset.                                         *)
(***************************************************************************)
\* C10: after the reset of a user-RW region, the first min(size, len(data))
\* bytes at its base equal the data and every byte after them up to
\* round_up(size) is zero (all of them zero when the data is absent),
\* whatever U-mode wrote before.
C10_ResetRestoresRegion ==
    (phase = "reset" /\ region.perms = "ReadWrite") =>
        LET n == IF region.data.present
                 THEN min(region.size, Len(region.data.bytes))
                 ELSE 0
        IN /\ Len(umem) = round_up(region.size)
           /\ \A i \in 1..n : umem[i] = region.data.bytes[i]
           /\ \A i \in (n + 1)..round_up(region.size) : umem[i] = 0

\* The reset ran over a region whose data is longer than its size and whose
\* size is not a whole page, after U-mode had written over the data, the
\* rest of the region and the rest of its last page.
C10_Witness ==
    /\ phase = "reset"
    /\ region.perms = "ReadWrite"
    /\ region.data.present
    /\ Len(region.data.bytes) > region.size
    /\ round_up(region.size) > region.size
    /\ region.size > 1
    /\ wiped = 1..round_up(region.size)

(***************************************************************************)
(* Properties of the private regions.                                      *)
(***************************************************************************)
\* The indices in phys of the pages CPU c's table maps user-RW.
WritablePhys(c) == {translate(c, va) : va \in UserWritable}

\* C11: after any U-mode runs and writes, a reset on a CPU leaves every
\* user-RW private region of that CPU's page table byte-identical to what
\* new_page_table built, and writes no byte outside those regions: the
\* user-R and user-RX regions and the other CPUs' private regions keep
\* their bytes.  Both reset paths are covered: HypPageTable::restore_umode
\* and the reset areas of UmodeActiveTask::reset.
C11_ResetRestoresOnlyOwnWritable ==
    \A c \in CPUs :
        /\ ~running[c] => \A p \in WritablePhys(c) : phys[p] = built[p]
        /\ LET area == umode_area(c, phys)
               own == WritablePhys(c)
               expected == [p \in 1..Len(phys) |-> IF p \in own THEN built[p] ELSE phys[p]]
           IN /\ through(c, phys, restore_umode(private_regions, area)) = expected
              /\ through(c, phys, reset_each(reset_areas, 1, area)) = expected

\* U-mode runs on both CPUs; both regions are user-RW, the first with data;
\* cpu0 has stored to the second region and cpu1 to one of its own, and the
\* reset of cpu0 changes memory.
C11_Witness ==
    /\ running["cpu0"] /\ running["cpu1"]
    /\ Len(private_regions) = 2
    /\ \A i \in 1..2 : private_regions[i].pte_fields = "URW"
    /\ private_regions[1].data.present
    /\ \E va \in MappedRange(private_regions[2]) : phys[translate("cpu0", va)] \in UmodeBytes
    /\ \E p \in WritablePhys("cpu1") : phys[p] \in UmodeBytes
    /\ through("cpu0", phys, restore_umode(private_regions, umode_area("cpu0", phys))) # phys

(***************************************************************************)
(* Properties of the U-mode task.                                          *)
(***************************************************************************)
\* C12: at most one active run per CPU: while an active task is alive,
\* every further activate() on the per-CPU UmodeTask returns None, neither
\* a second active task nor a panic of the hypervisor; once the active task
\* is dropped, activate() succeeds again.
C12_OneActiveRunPerCpu ==
    /\ arch_ref => activate(arch_ref).kind = "None"
    /\ (umode_task = "set" /\ ~arch_ref) => activate(arch_ref).kind = "Some"
    /\ ~(arch_ref /\ abort_cause = "already borrowed")

\* C13: right after the per-CPU task is created and after every reset,
\* sepc is the ELF entry, a0 the CPU id, a1 the base and a2 the size of the
\* shared region, and every other U-mode register, host-save register and
\* trap CSR is zero.
C13_InitialFrame ==
    (umode_task = "set" /\ ~arch_ref) =>
        arch = [UmodeCpuArchState_default EXCEPT
                  !.umode_regs.sepc = ElfEntry,
                  !.umode_regs.a0 = TaskCpuId,
                  !.umode_regs.a1 = SharedRegion.base,
                  !.umode_regs.a2 = SharedRegion.size]

\* C14: whenever activate() succeeds, the arch state is the frame cpu_task
\* made and every user-RW region holds the bytes new_page_table built,
\* however the previous activation ended: the reset of memory and
\* registers runs before the borrow of the arch state is released.
C14_ActivateFindsInitialState ==
    LET clean == /\ arch = cpu_task(ElfEntry)
                 /\ \A p \in WritablePhys(TaskCpu) : phys[p] = built[p]
    IN /\ (umode_task = "set" /\ activate(arch_ref).kind = "Some") => clean
       /\ (arch_ref /\ act_ret = "Some" /\ run_ret = "none") => clean

\* activate() has just succeeded after an activation that ended in an
\* UnexpectedTrap with U-mode's registers and stores still in place when it
\* was dropped.
C14_Witness ==
    /\ arch_ref
    /\ act_ret = "Some"
    /\ run_ret = "none"
    /\ ended = [how |-> "UnexpectedTrap", dirty |-> TRUE]

\* C15: when U-mode traps with UserEnvCall, the hypervisor advances the
\* saved sepc by 4, decodes and handles the hypcall and goes back into
\* U-mode: a PutChar or NextOp does not end the run.
C15_EcallResumesUmode ==
    (/\ arch_ref
     /\ arch.trap_csrs.scause = UserEnvCall
     /\ arch.umode_regs.a7 \in {HYPC_PUTCHAR, HYPC_NEXTOP}) =>
        /\ arch.umode_regs.sepc = trap_pc + 4
        /\ run_ret = "running"

\* C16: for every scause other than UserEnvCall (another exception, an
\* interrupt, a cause the hypervisor does not recognise) run() returns
\* UnexpectedTrap: it neither panics nor goes back into U-mode.
C16_OtherTrapsFailTheRun ==
    (/\ arch_ref
     /\ ~running[TaskCpu]
     /\ arch.trap_csrs.scause \in Causes \ {UserEnvCall}) =>
        /\ run_ret = "UnexpectedTrap"
        /\ abort_cause # "from_scause"

\* C17: a Panic hypcall (a7 = 0) ends the run with a failure tagged Panic,
\* not with success, and U-mode is not resumed.
C17_PanicFailsTheRun ==
    (/\ arch_ref
     /\ ~running[TaskCpu]
     /\ arch.trap_csrs.scause = UserEnvCall
     /\ arch.umode_regs.a7 = HYPC_PANIC) =>
        run_ret = "Panic"

(***************************************************************************)
(* Properties of the register codecs.                                      *)
(***************************************************************************)
\* C19: for every UmodeRequest x the API can construct (nop, print_string,
\* memcopy, get_evidence with any addresses and lengths, an address of 0
\* included), try_from_registers(to_registers(x)) succeeds and yields x,
\* field by field.
C19_RequestRoundTrip ==
    (cval.type = "UmodeRequest" /\ cdec.kind \in {"ok", "err"}) =>
        cdec.kind = "ok" /\ cdec.val = cval.val

\* C20: for Panic, PutChar(b) with every byte b and NextOp(r) with success
\* and with every Error variant, try_from_registers(to_registers(x)) yields
\* x whatever the registers held before; every register image whose a7 is
\* not 0, 1 or 2 decodes to EcallNotSupported.
C20_HypCallRoundTrip ==
    /\ (cval.type = "HypCall" /\ cdec.kind \in {"ok", "err"}) =>
          cdec.kind = "ok" /\ cdec.val = cval.val
    /\ (/\ cval.type = "registers"
        /\ cdec.kind \in {"ok", "err"}
        /\ cregs[7] \notin {HYPC_PANIC, HYPC_PUTCHAR, HYPC_NEXTOP}) =>
          cdec = DecodeErr("EcallNotSupported")

\* A Panic has been passed through registers that all held the largest
\* value before, a7 included.
C20_Witness ==
    /\ cval.type = "HypCall"
    /\ cval.val = HypCall_Panic
    /\ cdec.kind = "ok"
    /\ cregs[0] = U64Max
    /\ cregs[7] = HYPC_PANIC

(***************************************************************************)
(* Properties of the request loop.                                         *)
(***************************************************************************)
\* The results the NextOp hypcalls since the (re)start have carried.
Carried == [k \in 1..Len(received) |-> received[k].val.result]

\* The request U-mode decodes from the registers the hypervisor returned.
RequestOf(req) == hyp_nextop(draft.umode, OkUnit, req)

\* C18: requests and results strictly alternate: the first NextOp after a
\* (re)start carries success, the k-th NextOp carries the result of the
\* request the previous NextOp returned (the decode error of a request
\* that fails to decode), no NextOp arrives that no request went before,
\* and U-mode handles a request only when the hypervisor has received the
\* previous result and resumed it.
C18_NextOpRendezvous ==
    /\ \A k \in 1..Len(received) : received[k].kind = "ok" /\ received[k].val.call = "NextOp"
    /\ received # <<>> => Carried[1] = OkUnit
    /\ Len(received) <= Len(issued) + 1
    /\ Len(issued) <= Len(received)
    /\ \A k \in 2..Len(received) :
          k - 1 <= Len(issued) =>
              Carried[k] \in loop_body(draft.umode, RequestOf(issued[k - 1]))
    /\ loop_pos = "resumed" => Len(issued) = Len(received)

\* run_loop against the dispatching hypervisor keeps the rendezvous.
LoopKeepsRendezvous ==
    (draft.umode = "run_loop" /\ draft.hyp = "dispatch") => C18_NextOpRendezvous

(***************************************************************************)
(* Properties of the MemCopy request.                                      *)
(***************************************************************************)
\* The byte ranges [out, out + len) and [in, in + len) intersect.
Intersect(out_addr, in_addr, len) ==
    /\ len > 0
    /\ out_addr < in_addr + len
    /\ in_addr < out_addr + len

\* C21: a MemCopy request built by memcopy(out_addr, in_addr, len) is in
\* the registers as a0 = 3, a1 = out_addr, a2 = in_addr, a3 = len, and the
\* U-mode decoder reads from them the addresses and the length the
\* hypervisor passed.
C21_MemCopyLayout ==
    (/\ cval.type = "UmodeRequest"
     /\ cval.api = "u-mode-api"
     /\ cval.val.op = "MemCopy"
     /\ cdec.kind # "prior") =>
        /\ cregs[0] = 3
        /\ cregs[1] = cval.val.out_addr.val
        /\ cregs[2] = cval.val.in_addr.val
        /\ cregs[3] = cval.val.in_len
        /\ request_from_registers(cregs) =
              Decoded([op |-> "MemCopy", out_addr |-> cval.val.out_addr.val,
                       in_addr |-> cval.val.in_addr.val, len |-> cval.val.in_len])

\* C22: memcopy(out, in, len) returns none if and only if [out, out + len)
\* and [in, in + len) intersect, and otherwise a MemCopy request with those
\* addresses and that length; it never aborts, also for len = 0 and for
\* ranges that end at 2^64.
C22_MemcopyOverlapCheck ==
    (cval.type = "memcopy" /\ cdec.kind # "prior") =>
        /\ cdec.kind # "panic"
        /\ cdec.kind = "None" <=> Intersect(cval.val.out_addr, cval.val.in_addr, cval.val.len)
        /\ cdec.kind = "Some" =>
              cdec.val = UmodeRequest("u-mode-api", "MemCopy", SomeAddr(cval.val.in_addr),
                                      cval.val.len, SomeAddr(cval.val.out_addr),
                                      cval.val.len, NoAddr, 0)

\* Where the ranges lie inside the address space and are not empty, memcopy
\* decides the overlap as claimed.
MemcopyRightInsideTheSpace ==
    (/\ cval.type = "memcopy"
     /\ cdec.kind # "prior"
     /\ ~memcopy_overflows(cval.val.out_addr, cval.val.in_addr, cval.val.len)) =>
        C22_MemcopyOverlapCheck

(***************************************************************************)
(* Properties of the boot allocator.                                       *)
(***************************************************************************)
\* The pages of the map that are free, and the pages a call returned.
FreePages(page_map) == {a \in DOMAIN page_map : is_free(page_map[a])}

PagesOf(out) == out.base..(out.base + out.count - 1)

\* The free pages of the map form one contiguous run.
OneFreeRun(page_map) ==
    \A a, b \in FreePages(page_map) : \A x \in a..b : x \in FreePages(page_map)

\* The calls the hypervisor can make in this state, with their results.
AllocCalls ==
    {HypPageAlloc_next_page(page_alloc)}
        \cup {HypPageAlloc_take_pages(page_alloc, n) : n \in TakeCounts}

\* C27: in a page map whose free pages form one contiguous run, next_page()
\* and take_pages(n) return the pages that start at the cursor and leave
\* the cursor on the page right after them, so the ranges of successive
\* calls lie back to back in ascending order.
C27_BackToBack ==
    (alloc_state = "ready" /\ OneFreeRun(page_alloc.pages)) =>
        /\ \A out \in AllocCalls :
              out.kind = "ok" =>
                  /\ out.base = page_alloc.next_page
                  /\ out.alloc.next_page = out.base + out.count
        /\ \A a \in taken : a < page_alloc.next_page

\* next_page, take_pages(2), next_page have returned four pages in a row.
C27_Witness ==
    /\ alloc_state = "ready"
    /\ OneFreeRun(page_alloc.pages)
    /\ Cardinality(taken) = 4
    /\ \E first \in taken : taken = first..(first + 3) /\ page_alloc.next_page = first + 4

\* The bases at or after the cursor at which count free pages start that
\* are a multiple of align.
AlignedBases(count, align) ==
    {p \in DOMAIN page_alloc.pages :
        /\ p >= page_alloc.next_page
        /\ p % align = 0
        /\ \A a \in p..(p + count - 1) : a \in FreePages(page_alloc.pages)}

\* What take_pages_with_alignment returns: count pages that were free, at
\* the lowest aligned base at or after the cursor.
TakesLowestAligned(out, count, align) ==
    /\ out.count = count
    /\ PagesOf(out) \subseteq FreePages(page_alloc.pages)
    /\ out.base \in AlignedBases(count, align)
    /\ \A p \in AlignedBases(count, align) : out.base <= p

\* C28 as stated: take_pages_with_alignment(n, align) returns n pages that
\* were free, at the lowest aligned base at or after next_page, and the
\* next next_page() returns the page right after the range.
C28_AlignedTakeAsStated ==
    (alloc_state = "ready" /\ taken # {}) =>
        \A count \in TakeCounts, align \in Alignments :
            LET out == take_pages_with_alignment(page_alloc, count, align)
            IN out.kind = "ok" =>
                  /\ TakesLowestAligned(out, count, align)
                  /\ HypPageAlloc_next_page(out.alloc).kind = "ok" =>
                        HypPageAlloc_next_page(out.alloc).base = out.base + count

\* C28: take_pages_with_alignment(n, align) returns n pages that were free,
\* at the lowest aligned base at or after next_page, and the next
\* next_page() returns the first free page at or after the end of the
\* range: the page right after the range when that page is free.
C28_AlignedTake ==
    alloc_state = "ready" =>
        \A count \in TakeCounts, align \in Alignments :
            LET out == take_pages_with_alignment(page_alloc, count, align)
                after == {a \in FreePages(page_alloc.pages) : a >= out.base + count}
            IN out.kind = "ok" =>
                  /\ TakesLowestAligned(out, count, align)
                  /\ HypPageAlloc_next_page(out.alloc).kind = "ok" =>
                        /\ HypPageAlloc_next_page(out.alloc).base \in after
                        /\ \A a \in after : HypPageAlloc_next_page(out.alloc).base <= a

\* An aligned take has skipped a free page and returned two pages at an
\* aligned base, and a free page is left.
C28_Witness ==
    /\ alloc_state = "ready"
    /\ \E base \in taken :
          /\ taken = {base, base + 1}
          /\ base % 2 = 0
          /\ (base - 1) \in DOMAIN page_alloc.pages
          /\ page_alloc.pages[base - 1] = PageInfo("Ram", <<HypervisorId>>)

\* C29: between allocator calls next_page is a free page and every RAM page
\* below it is owned; no call returns a page that was not free, a page
\* that an aligned take skipped included, and drain() hands out none.
C29_CursorInvariant ==
    /\ alloc_state = "ready" =>
          /\ in_map(page_alloc.pages, page_alloc.next_page)
          /\ is_free(page_alloc.pages[page_alloc.next_page])
          /\ \A a \in DOMAIN page_alloc.pages :
                (a < page_alloc.next_page /\ page_alloc.pages[a].mem_type = "Ram") =>
                    page_alloc.pages[a].owners # <<>>
          /\ \A count \in TakeCounts, align \in Alignments :
                LET out == take_pages_with_alignment(page_alloc, count, align)
                IN out.kind = "ok" => PagesOf(out) \cap taken = {}
                                      /\ PagesOf(out) \subseteq FreePages(page_alloc.pages)
          /\ LET out == HypPageAlloc_next_page(page_alloc)
             IN out.kind = "ok" => out.base \in FreePages(page_alloc.pages) \ taken
          /\ LET out == drain(page_alloc)
             IN \A i \in 1..Len(out.ranges) :
                   PagesOf(out.ranges[i]) \subseteq FreePages(page_alloc.pages)
    /\ alloc_state \in {"ready", "drained"} =>
          \A a \in taken : page_alloc.pages[a] = PageInfo("Ram", <<HypervisorId>>)

\* An aligned take has skipped a free page, which is now the hypervisor's
\* and which no call has returned.
C29_Witness ==
    /\ alloc_state = "ready"
    /\ \E a \in DOMAIN page_alloc.pages :
          /\ a < page_alloc.next_page
          /\ a \notin taken
          /\ page_alloc.pages[a] = PageInfo("Ram", <<HypervisorId>>)

\* The maximal runs of free pages of the map, as ranges in ascending order.
FreeRunStarts(page_map) ==
    {a \in FreePages(page_map) : (a - 1) \notin FreePages(page_map)}

RunLength(page_map, a) ==
    Cardinality({b \in FreePages(page_map) :
                   b >= a /\ \A x \in a..b : x \in FreePages(page_map)})

\* What drain() does on the allocator of this state: it ends, its ranges
\* are the maximal free runs in ascending order, and no page is left free.
DrainsTheFreeRuns(out) ==
    /\ out.kind = "ok"
    /\ {out.ranges[i].base : i \in 1..Len(out.ranges)} = FreeRunStarts(page_alloc.pages)
    /\ \A i \in 1..Len(out.ranges) :
          /\ out.ranges[i].count = RunLength(page_alloc.pages, out.ranges[i].base)
          /\ i > 1 => out.ranges[i - 1].base + out.ranges[i - 1].count < out.ranges[i].base
    /\ FreePages(out.pages) = {}

\* C30 as stated: drain() returns the maximal runs of free pages in
\* ascending order and leaves no page free, and when the free pages form
\* one contiguous run it returns one range of pages_remaining() pages.
C30_DrainAsStated ==
    (alloc_state = "ready" /\ taken # {}) =>
        LET out == drain(page_alloc)
        IN /\ DrainsTheFreeRuns(out)
           /\ OneFreeRun(page_alloc.pages) =>
                 /\ Len(out.ranges) = 1
                 /\ out.ranges[1].count = pages_remaining(page_alloc)

\* C30: drain() returns the maximal runs of free pages in ascending order
\* and leaves no page free, and when the free pages form one contiguous
\* run that reaches the end of the map it returns one range of
\* pages_remaining() pages.
C30_Drain ==
    /\ alloc_state = "ready" =>
          LET out == drain(page_alloc)
          IN /\ DrainsTheFreeRuns(out)
             /\ (/\ OneFreeRun(page_alloc.pages)
                 /\ (map_end(page_alloc.pages) - 1) \in FreePages(page_alloc.pages)) =>
                   /\ Len(out.ranges) = 1
                   /\ out.ranges[1].count = pages_remaining(page_alloc)
    /\ alloc_state = "drained" =>
          /\ FreePages(page_alloc.pages) = {}
          /\ \A i \in 1..Len(host_ranges) : PagesOf(host_ranges[i]) \cap taken = {}

\* drain() has returned two ranges after the allocator handed out a page.
C30_Witness ==
    /\ alloc_state = "drained"
    /\ Len(host_ranges) = 2
    /\ taken # {}

(***************************************************************************)
(* Properties of the U-mode mapping slots.                                 *)
(***************************************************************************)
ValidSlots == 0..(UMODE_MAPPING_SLOTS - 1)

\* The virtual pages of the window of a slot.
SlotWindow(slot) ==
    (UMODE_MAPPINGS_START + slot * SlotPages)..(UMODE_MAPPINGS_START + (slot + 1) * SlotPages - 1)

\* A slot is Free when no page of its window translates, Mapped otherwise.
SlotIsFree(table, slot) == \A a \in SlotWindow(slot) : ~table.sv48.leaves[a].valid

C25_SlotBounds ==
    hyp_table # NoTable =>
        /\ \A slot \in SlotNumbers, num_pages \in SlotCounts, writable \in BOOLEAN :
              LET made == umode_slot_mapper(hyp_table, slot, num_pages, writable)
              IN /\ made.err = "OutOfMap" <=> num_pages > SlotPages
                 /\ (num_pages <= SlotPages /\ slot >= UMODE_MAPPING_SLOTS) =>
                        made.err = "InvalidSlot"
                 /\ (num_pages <= SlotPages /\ slot \in ValidSlots /\ SlotIsFree(hyp_table, slot)) =>
                        /\ made.kind = "ok"
                        /\ made.mapper.vaddr = UMODE_MAPPINGS_START + slot * SlotPages
                 /\ made.kind = "ok" =>
                        made.mapper.vaddr..(made.mapper.vaddr + made.mapper.num_pages - 1)
                            \subseteq SlotWindow(slot)
        /\ \A vaddr \in MapVas, paddr \in GuestPages :
              LET put == UmodeSlotMapper_map_addr(hyp_table, slot_mapper, vaddr, paddr)
                  range == slot_mapper.vaddr..(slot_mapper.vaddr + slot_mapper.num_pages - 1)
              IN /\ put.kind = "ok" <=> vaddr \in range
                 /\ \A a \in SlotVas \ range : put.table.sv48.leaves[a] = hyp_table.sv48.leaves[a]
        /\ \A a \in SlotVas :
              hyp_table.sv48.leaves[a].paddr \in GuestPages =>
                  \E slot \in ValidSlots : a \in SlotWindow(slot)

\* The hypervisor holds a mapper of the whole of the first slot, and the
\* last page of the slot and the first of the next slot are mapped.
C25_Witness ==
    /\ slot_mapper.num_pages = SlotPages
    /\ slot_mapper.vaddr = UMODE_MAPPINGS_START
    /\ hyp_table.sv48.leaves[slot_mapper.vaddr + SlotPages - 1].valid
    /\ hyp_table.sv48.leaves[slot_mapper.vaddr + SlotPages].valid
    /\ hyp_table.sv48.leaves[slot_mapper.vaddr + SlotPages - 1].valid

\* C26: when the first n pages of a slot hold guest pages p0..p(n-1) and
\* the slot holds no more, unmap_umode_slot(s, n) returns p0..p(n-1) in the
\* order of their virtual addresses and leaves no page of the slot
\* translating.
C26_UnmapReturnsMapped ==
    hyp_table # NoTable =>
        \A slot \in ValidSlots, n \in 1..SlotPages, strict \in BOOLEAN :
            LET base == UMODE_MAPPINGS_START + slot * SlotPages
                un == unmap_umode_slot(hyp_table, slot, n, strict)
            IN (\A a \in SlotWindow(slot) : hyp_table.sv48.leaves[a].valid <=> a < base + n) =>
                  /\ un.kind = "ok"
                  /\ un.unmapped = [i \in 1..n |-> hyp_table.sv48.leaves[base + i - 1].paddr]
                  /\ SlotIsFree(un.table, slot)
                  /\ \A a \in SlotVas \ SlotWindow(slot) :
                        un.table.sv48.leaves[a] = hyp_table.sv48.leaves[a]

\* unmap_umode_slot has returned two different guest pages and the slots
\* are Free.
C26_Witness ==
    /\ Len(slot_out) = 2
    /\ slot_out[1] # slot_out[2]
    /\ \A a \in SlotVas : hyp_table.sv48.leaves[a].paddr \notin GuestPages

\* The pages next_page() hands out, one call after the other, before it
\* panics.
RECURSIVE Obtainable(_, _)
Obtainable(alloc, calls_left) ==
    IF calls_left = 0 \/ HypPageAlloc_next_page(alloc).kind # "ok"
    THEN 0
    ELSE 1 + Obtainable(HypPageAlloc_next_page(alloc).alloc, calls_left - 1)

\* The most pages a take_pages(n) followed by calls of next_page() hands
\* out: the pages of the take and what is obtainable after it.
ObtainableAfterTake(alloc, count) ==
    LET out == HypPageAlloc_take_pages(alloc, count)
    IN IF out.kind = "ok" THEN count + Obtainable(out.alloc, MapPages) ELSE 0

\* C31 as stated: in every allocator state at least pages_remaining()
\* further pages can be obtained from next_page() before the allocator is
\* exhausted.
C31_LowerBoundAsStated ==
    (alloc_state = "ready" /\ taken # {}) =>
        Obtainable(page_alloc, MapPages) >= pages_remaining(page_alloc)

\* C31: in every allocator state, for every memory map, at most
\* pages_remaining() further pages can be obtained from next_page() and
\* take_pages before the allocator is exhausted: pages_remaining() is an
\* upper bound of the pages still assignable.
C31_UpperBound ==
    alloc_state = "ready" =>
        /\ Obtainable(page_alloc, MapPages) <= pages_remaining(page_alloc)
        /\ \A count \in TakeCounts :
              ObtainableAfterTake(page_alloc, count) <= pages_remaining(page_alloc)

\* The allocator has handed out a page, a reserved page lies behind the
\* cursor and two more pages can be obtained.
C31_Witness ==
    /\ alloc_state = "ready"
    /\ taken # {}
    /\ \E a \in DOMAIN page_alloc.pages :
          a > page_alloc.next_page /\ page_alloc.pages[a].mem_type = "Reserved"
    /\ Obtainable(page_alloc, MapPages) = 2

\* The ranges of a sequence are pairwise disjoint.
PairwiseDisjoint(ranges) ==
    \A i, j \in 1..Len(ranges) : i # j => PagesOf(ranges[i]) \cap PagesOf(ranges[j]) = {}

\* C34: no page is handed out twice: the pages of every next_page,
\* take_pages and take_pages_with_alignment were free before the call and
\* were not returned by an earlier call, and the ranges drain() returns are
\* pairwise disjoint, were free, and hold no page returned to the
\* hypervisor.
C34_NoPageTwice ==
    /\ alloc_state = "ready" =>
          /\ \A out \in AllocCalls
                    \cup {take_pages_with_alignment(page_alloc, n, align) :
                             n \in TakeCounts, align \in Alignments} :
                out.kind = "ok" =>
                    /\ PagesOf(out) \subseteq FreePages(page_alloc.pages)
                    /\ PagesOf(out) \cap taken = {}
                    /\ PagesOf(out) \cap FreePages(out.alloc.pages) = {}
          /\ LET out == drain(page_alloc)
             IN /\ PairwiseDisjoint(out.ranges)
                /\ \A i \in 1..Len(out.ranges) :
                      /\ PagesOf(out.ranges[i]) \subseteq FreePages(page_alloc.pages)
                      /\ PagesOf(out.ranges[i]) \cap taken = {}
          /\ taken \cap FreePages(page_alloc.pages) = {}
    /\ alloc_state = "drained" =>
          /\ PairwiseDisjoint(host_ranges)
          /\ \A i \in 1..Len(host_ranges) : PagesOf(host_ranges[i]) \cap taken = {}

\* The hypervisor took three pages and drain() then returned a range to
\* the host.
C34_Witness ==
    /\ alloc_state = "drained"
    /\ Cardinality(taken) = 3
    /\ Len(host_ranges) = 1
    /\ host_ranges[1].count > 0

\* C35: next_page() returns a page whenever a free page remains, and
\* take_pages(n) returns a range whenever n free pages in a row remain at
\* or after the cursor, also when the call takes the last free page of the
\* map.
C35_FatalOnlyOnExhaustion ==
    (alloc_state = "ready" /\ taken # {}) =>
        /\ FreePages(page_alloc.pages) # {} => HypPageAlloc_next_page(page_alloc).kind = "ok"
        /\ \A count \in TakeCounts :
              AlignedBases(count, 1) # {} =>
                  HypPageAlloc_take_pages(page_alloc, count).kind = "ok"


(***************************************************************************)
(* C36: a failed set_page_owner(addr, id) (InvalidPage, OwnerOverflow or   *)
(* ReservedPage) does not change what the tracker reports: owner(p) and    *)
(* mem_type(p) of every page p and the active-guest set are the same       *)
(* after the failed call as before it, whatever pruning of exited owners   *)
(* preceded the rejected push.                                             *)
(***************************************************************************)
FailedSetPageOwner(addr, id) == set_page_owner(Cur, addr, id).res.kind = "err"

C36_FailedSetChangesNothing ==
    \A addr \in Addrs, id \in OwnerIds :
        LET out == set_page_owner(Cur, addr, id)
        IN out.res.kind = "err" =>
              /\ out.st.active = active_guests
              /\ \A p \in Addrs :
                    /\ tracker_owner(out.st, p).res = owner(p)
                    /\ tracker_mem_type(out.st, p).res = mem_type(p)

\* A push onto a full stack that holds an exited owner is rejected, and so
\* are a push onto the reserved page and one onto an uncovered address.
C36_Witness ==
    /\ \E id \in OwnerIds :
          /\ set_page_owner(Cur, RamAddr, id).res = Err("OwnerOverflow")
          /\ \E i \in 1..Len(pages[RamAddr].owners) :
                ~contains(active_guests, pages[RamAddr].owners[i])
    /\ FailedSetPageOwner(ReservedAddr, 0)
    /\ FailedSetPageOwner(UnmappedAddr, 0)


(***************************************************************************)
(* C37: create_guest_root_builder leaks no guest id: when it returns an    *)
(* error (UnalignedVmPages, GuestId or Paging) the active-guest set is as  *)
(* before the call and no page's owner has changed; when it succeeds,      *)
(* exactly one new id has joined the active set and exactly the six pages  *)
(* from from_addr have that id as their top owner.                         *)
(***************************************************************************)
TopIs(st, a, id) ==
    Len(st.pages[a].owners) > 0 /\ st.pages[a].owners[Len(st.pages[a].owners)] = id

C37_NoGuestIdLeak ==
    \A caller \in OwnerIds, from \in CreateFroms :
        IsVm(caller) /\ ~panicked =>
            LET unmapped == invalidate_range(vm_roots, caller, from, GuestRootPages)
                out == create_guest_root_builder(Cur, from, unmapped)
            IN /\ out.res.kind = "err" =>
                    /\ out.st.active = active_guests
                    /\ \A a \in DOMAIN pages :
                          tracker_owner(out.st, a).res = owner(a)
               /\ out.res.kind = "ok" =>
                    /\ out.st.active = Append(active_guests, out.res.id)
                    /\ ~contains(active_guests, out.res.id)
                    /\ {a \in DOMAIN pages : TopIs(out.st, a, out.res.id)}
                          = from..(from + GuestRootPages - 1)

(***************************************************************************)
(* C38: remove_4k_pages returns each removed page to its previous owner:   *)
(* on success the owner stack of every removed page has lost exactly its   *)
(* top entry, which was the calling VM's id; if the top owner of some page *)
(* of the range is not the calling VM, the call fails with UnownedPage and *)
(* has changed no page's owner stack.                                      *)
(***************************************************************************)
\* The ranges unmap_range can give over the pages of the tracker model.
RemovedRanges ==
    {<<RamAddr>>, <<ReservedAddr>>, <<RamAddr, ReservedAddr>>, <<ReservedAddr, RamAddr>>}

C39_GuestErrorsNeverFatal ==
    /\ vm_roots # <<>> => ~panicked
    /\ \A caller \in OwnerIds, from \in CreateFroms :
          IsVm(caller) /\ ~panicked =>
             create_guest_root_builder(Cur, from,
                 invalidate_range(vm_roots, caller, from, GuestRootPages)).res # Panic

\* What the contract gives for one ELF segment: the error, or "ok".
ContractSegmentResult(seg) ==
    IF seg.vaddr % PageBytes # 0 THEN "ElfUnalignedSegment"
    ELSE IF \/ seg.size = 0
            \/ seg.vaddr < UMODE_VA_START
            \/ seg.vaddr + seg.size > UMODE_VA_START + UMODE_VA_SIZE
         THEN "ElfInvalidAddress"
    ELSE "ok"

ContractLeafPerms(perms) ==
    CASE perms = "ReadOnly" -> "UR"
      [] perms = "ReadWrite" -> "URW"
      [] perms = "ReadOnlyExecute" -> "URX"

FailingSegments == {i \in 1..Len(umode_elf) : ContractSegmentResult(umode_elf[i]) # "ok"}

(***************************************************************************)
(* C32: a private region of an ELF segment fails with ElfUnalignedSegment  *)
(* exactly when the segment's vaddr is not page-aligned, otherwise with    *)
(* ElfInvalidAddress exactly when [vaddr, vaddr + size) is empty or not    *)
(* inside [UMODE_VA_START, UMODE_VA_END), and otherwise is made with the   *)
(* leaf permissions R -> UR, RW -> URW, RX -> URX; HypMap::init returns the *)
(* error of the first failing segment and leaves the HypMap unset.         *)
(***************************************************************************)
C32_ElfSegmentErrors ==
    hypmap_ret # "none" =>
       IF FailingSegments = {}
       THEN /\ hypmap_ret = "ok"
            /\ hypmap.set
            /\ Len(hypmap.regions) = Len(umode_elf)
            /\ \A i \in 1..Len(umode_elf) :
                  /\ hypmap.regions[i].vaddr = umode_elf[i].vaddr
                  /\ hypmap.regions[i].size = umode_elf[i].size
                  /\ hypmap.regions[i].pte_fields = ContractLeafPerms(umode_elf[i].perms)
       ELSE /\ hypmap_ret = ContractSegmentResult(
                   umode_elf[CHOOSE i \in FailingSegments : \A j \in FailingSegments : i <= j])
            /\ hypmap = NoHypMap

\* HypMap::init has returned ElfInvalidAddress for a first segment outside
\* the U-mode area, though the second segment is unaligned.
C32_Witness ==
    /\ hypmap_ret = "ElfInvalidAddress"
    /\ FailingSegments = {1, 2}
    /\ umode_elf[1].size > 0
    /\ ContractSegmentResult(umode_elf[2]) = "ElfUnalignedSegment"
    /\ ~hypmap.set

\* [addr, addr + len) is not empty and lies in the U-mode area, the sum
\* taken without wraparound.
RangeInUmodeArea(addr, len) ==
    /\ len # 0
    /\ UMODE_VA_START <= addr
    /\ addr + len <= UMODE_VA_START + UMODE_VA_SIZE

(***************************************************************************)
(* C40: for every 64-bit addr and len, UmodeMemoryRange::new accepts       *)
(* exactly when len is not 0, UMODE_VA_START <= addr and addr + len <=     *)
(* UMODE_VA_END without wraparound; no addr and len whose true end is      *)
(* beyond 2^64 is accepted or aborts the check; and the range offset(off)  *)
(* makes from a valid range stays inside that range.                       *)
(***************************************************************************)
C40_RangeCheckExact ==
    /\ um_call.op = "new" =>
          /\ um_ret # "panic"
          /\ um_ret = "ok" <=> RangeInUmodeArea(um_call.addr, um_call.len)
    /\ um_call.op = "offset" /\ um_ret = "ok" =>
          /\ um_parent.addr <= um_range.addr
          /\ um_range.addr + um_range.len <= um_parent.addr + um_parent.len

\* The secondary CPUs hart_start was issued for before the latest one.
StartedEarlier == {smp_started[k] : k \in 1..(Len(smp_started) - 1)}

(***************************************************************************)
(* C33: start_secondary_cpus returns only after every non-boot CPU has set *)
(* its online flag; hart_start is issued in increasing cpu id and for one  *)
(* CPU only when every secondary CPU started before it is online; and the  *)
(* online flag of a CPU that has called set_online stays set.              *)
(***************************************************************************)
C33_SecondariesOnlineInOrder ==
    /\ smp_pc = "done" => \A c \in CpuIds : smp_online[c].set
    /\ \A k \in 1..(Len(smp_started) - 1) : smp_started[k] < smp_started[k + 1]
    /\ \A c \in StartedEarlier : smp_online[c].set
    /\ \A c \in DOMAIN smp_hart :
          smp_hart[c] \in {"boot", "online", "running"} => smp_online[c].set

\* start_secondary_cpus has returned, on a boot CPU that is not CPU 0, while
\* a secondary CPU it started is already past set_online and at its work.
C33_Witness ==
    /\ smp_pc = "done"
    /\ smp_boot > 0
    /\ Len(smp_started) = NumCpus - 1
    /\ \E c \in CpuIds : smp_hart[c] = "running"

====
